---------------------------- MODULE Spec2Model ----------------------------
(***************************************************************************)
(* Model of Templates/python/database-enhanced/server.py: the calendar     *)
(* sync into the DuckDB `events` table (DatabaseEnhancedMCP), the          *)
(* free_slots table macro and the handlers built on them; and of the       *)
(* schema cache of Templates/python/graphql-direct/server.py.              *)
(*                                                                         *)
(* Time is counted in seconds from Monday 2024-01-15 00:00:00 UTC, so that *)
(* weekday and hour of a timestamp are computed as DuckDB's EXTRACT does.  *)
(***************************************************************************)
EXTENDS Integers, Sequences, FiniteSets, TLC

VARIABLES
    store,        \* the rows of the events table, in insertion order
    clock,        \* the wall clock read by datetime.now(timezone.utc)
    pc,           \* pc[c]: where sync call c stands
    token,        \* token[c]: whether keyring returned a token to call c
    status,       \* status[c]: HTTP status of call c's response (0: none yet)
    events_data,  \* events_data[c]: the events of the JSON body call c got
    sync_stats,   \* sync_stats[c]: the counters of call c
    result,       \* result[c]: what call c returned to its caller
    prev,         \* the feed and the table of the latest finished sync loop,
                  \* and the number of rows the table held when each call began
    query,        \* the arguments of the latest free_slots query
    slots,        \* the rows the latest free_slots query returned
    answer,       \* what the latest query_database call returned
    report,       \* what the latest generate_meeting_insights call returned
    schema_cache, \* GraphQLDirectMCP._schema_cache
    schema_call   \* schema_call[c]: where get_graphql_schema call c stands

vars == <<store, clock, pc, token, status, events_data, sync_stats, result,
          prev, query, slots, answer, report, schema_cache, schema_call>>

-----------------------------------------------------------------------------
(* Bounds *)

\* Longest feed (number of raw events in one response body).
MaxFeed == 2

-----------------------------------------------------------------------------
(* Time *)

Minute == 60
Hour   == 60 * Minute
Day    == 24 * Hour

\* Seconds of hh:mm on day d (0 = Monday 2024-01-15, 4 = Friday, 5 = Saturday).
At(d, hh, mm) == d * Day + hh * Hour + mm * Minute

\* EXTRACT(hour FROM ts)
ExtractHour(ts) == (ts % Day) \div Hour

\* EXTRACT(dow FROM ts): 0 = Sunday, 1 = Monday, ..., 6 = Saturday.
ExtractDow(ts) == ((ts \div Day) + 1) % 7

\* Python's int(x / 60) for an integral number of seconds: truncation toward 0.
IntDiv60(secs) == IF secs >= 0 THEN secs \div 60 ELSE -((-secs) \div 60)

-----------------------------------------------------------------------------
(* Raw events of the remote feed.  A key the JSON object lacks is a field  *)
(* the record lacks; an ISO-8601 string is [iso |-> TRUE, sec |-> n], any  *)
(* other string [iso |-> FALSE, sec |-> 0]; JSON null is None.             *)

None == "<None>"

Iso(n) == [iso |-> TRUE, sec |-> n]
NotIso == [iso |-> FALSE, sec |-> 0]

Has(ev, key) == key \in DOMAIN ev

\* dict.get(key, default)
Get(ev, key, default) == IF Has(ev, key) THEN ev[key] ELSE default

\* datetime.fromisoformat(s.replace("Z", "+00:00")): raises on a non-ISO string.
FromIsoOk(s) == s.iso
FromIso(s) == s.sec

company_domain == "example.com"

\* An email string is [at |-> whether it contains "@", domain |-> the text after
\* the first "@"]; NoEmail is the default "" of attendee.get("email", "").
NoEmail == [at |-> FALSE, domain |-> ""]
Email(domain) == [at |-> TRUE, domain |-> domain]

\* {attendee.get("email", "").split("@")[1] for attendee in attendees
\*  if "@" in attendee.get("email", "")}
external_domains(attendees) ==
    {Get(attendees[i], "email", NoEmail).domain :
        i \in {j \in DOMAIN attendees : Get(attendees[j], "email", NoEmail).at}}

\* Mutant: the company domain is not taken out of the set of domains.
meeting_type_any_domain(attendees) ==
    IF external_domains(attendees) # {} THEN "external"
    ELSE IF Len(attendees) > 1 THEN "internal"
    ELSE "personal"

meeting_type(attendees) ==
    IF external_domains(attendees) \ {company_domain} # {} THEN "external"
    ELSE IF Len(attendees) > 1 THEN "internal"
    ELSE "personal"

\* Mutant: status is read with event["status"], a record without it raises.
transform_ok_requires_status(event) ==
    /\ Has(event, "start_time") /\ FromIsoOk(event.start_time)
    /\ Has(event, "end_time") /\ FromIsoOk(event.end_time)
    /\ Has(event, "id")
    /\ Has(event, "status")

\* _transform_event_data raises (KeyError, ValueError) exactly when this is FALSE.
transform_ok(event) ==
    /\ Has(event, "start_time") /\ FromIsoOk(event.start_time)
    /\ Has(event, "end_time") /\ FromIsoOk(event.end_time)
    /\ Has(event, "id")

transform_event_data(event) ==
    LET start_time == FromIso(event.start_time)
        end_time   == FromIso(event.end_time)
        attendees  == Get(event, "attendees", <<>>)
    IN [id               |-> event.id,
        title            |-> Get(event, "title", "No title"),
        description      |-> Get(event, "description", ""),
        start_time       |-> start_time,
        end_time         |-> end_time,
        duration_minutes |-> IntDiv60(end_time - start_time),
        attendees_count  |-> Len(attendees),
        meeting_type     |-> meeting_type(attendees),
        creator_email    |-> Get(Get(event, "creator", [name |-> ""]), "email", NoEmail),
        status           |-> Get(event, "status", "confirmed"),
        location         |-> Get(event, "location", ""),
        is_recurring     |-> Get(event, "recurring", FALSE)]

-----------------------------------------------------------------------------
(* The events table.  A row is a transformed event with created_at and     *)
(* updated_at; the table is the sequence of its rows.                      *)

\* Mutant: the lookup does not see the rows of the table (it reads what the
\* call saw before the rows of the other call were written).
existing_never(tbl, id) == FALSE

\* SELECT id FROM events WHERE id = ?  (.fetchone() is not None)
existing(tbl, id) == \E i \in DOMAIN tbl : tbl[i].id = id

\* The constraints of CREATE TABLE events: title, start_time, end_time NOT NULL.
not_null_ok(t) == t.title # None

\* id VARCHAR PRIMARY KEY: an INSERT of a stored (or null) id raises.
primary_key_ok(tbl, t) == t.id # None /\ \A i \in DOMAIN tbl : tbl[i].id # t.id

\* Mutant: the UPDATE without its WHERE clause rewrites every row.
update_event_no_where(tbl, t, now) ==
    [i \in DOMAIN tbl |->
        [t EXCEPT !.id = tbl[i].id]
            @@ [created_at |-> tbl[i].created_at, updated_at |-> now]]

\* Mutant: the UPDATE also sets created_at.
update_event_sets_created(tbl, t, now) ==
    [i \in DOMAIN tbl |->
        IF tbl[i].id = t.id
        THEN t @@ [created_at |-> now, updated_at |-> now]
        ELSE tbl[i]]

\* Mutant: the UPDATE has no "description = ?" in its SET list.
update_event_keeps_description(tbl, t, now) ==
    [i \in DOMAIN tbl |->
        IF tbl[i].id = t.id
        THEN [t EXCEPT !.description = tbl[i].description]
                @@ [created_at |-> tbl[i].created_at, updated_at |-> now]
        ELSE tbl[i]]

\* Mutant: the UPDATE has no "updated_at = ?" in its SET list.
update_event_keeps_updated_at(tbl, t, now) ==
    [i \in DOMAIN tbl |->
        IF tbl[i].id = t.id
        THEN t @@ [created_at |-> tbl[i].created_at,
                   updated_at |-> tbl[i].updated_at]
        ELSE tbl[i]]

\* UPDATE events SET title = ?, ..., updated_at = ? WHERE id = ?
update_event(tbl, t, now) ==
    [i \in DOMAIN tbl |->
        IF tbl[i].id = t.id
        THEN t @@ [created_at |-> tbl[i].created_at, updated_at |-> now]
        ELSE tbl[i]]

\* Mutant: a full refresh, the table is emptied before the INSERT.
insert_event_after_delete(tbl, t, now) ==
    <<t @@ [created_at |-> now, updated_at |-> now]>>

\* INSERT INTO events (...) VALUES (..., now, now)
insert_event(tbl, t, now) ==
    Append(tbl, t @@ [created_at |-> now, updated_at |-> now])

NoStats == [fetched |-> 0, updated |-> 0, inserted |-> 0, errors |-> 0]

\* Mutant: no lookup and no key on the table, every transformed event is inserted.
process_event_always_insert(st, event, now) ==
    IF ~transform_ok(event) THEN [st EXCEPT !.stats.errors = @ + 1]
    ELSE [store |-> insert_event(st.store, transform_event_data(event), now),
          stats |-> [st.stats EXCEPT !.inserted = @ + 1]]

\* Mutant: the UPDATE branch does not count the record as updated.
process_event_update_uncounted(st, event, now) ==
    LET failed == [st EXCEPT !.stats.errors = @ + 1] IN
    IF ~transform_ok(event) THEN failed
    ELSE LET transformed == transform_event_data(event) IN
         IF existing(st.store, transformed.id)
         THEN IF not_null_ok(transformed)
              THEN [store |-> update_event(st.store, transformed, now),
                    stats |-> st.stats]
              ELSE failed
         ELSE IF not_null_ok(transformed) /\ primary_key_ok(st.store, transformed)
              THEN [store |-> insert_event(st.store, transformed, now),
                    stats |-> [st.stats EXCEPT !.inserted = @ + 1]]
              ELSE failed

\* The body of `for event in events_data.get("events", [])`: its try block and
\* its except clause.  st is [store, stats].
process_event(st, event, now) ==
    LET failed == [st EXCEPT !.stats.errors = @ + 1] IN
    IF ~transform_ok(event) THEN failed
    ELSE LET transformed == transform_event_data(event) IN
         IF existing(st.store, transformed.id)
         THEN IF not_null_ok(transformed)
              THEN [store |-> update_event(st.store, transformed, now),
                    stats |-> [st.stats EXCEPT !.updated = @ + 1]]
              ELSE failed
         ELSE IF not_null_ok(transformed) /\ primary_key_ok(st.store, transformed)
              THEN [store |-> insert_event(st.store, transformed, now),
                    stats |-> [st.stats EXCEPT !.inserted = @ + 1]]
              ELSE failed

\* Mutant: no try/except around the loop body, the first failing record ends the
\* loop.
RECURSIVE sync_loop_abort_on_error(_, _, _)
sync_loop_abort_on_error(st, feed, now) ==
    IF feed = <<>> THEN st
    ELSE LET next == process_event(st, Head(feed), now) IN
         IF next.stats.errors > st.stats.errors THEN next
         ELSE sync_loop_abort_on_error(next, Tail(feed), now)

RECURSIVE sync_loop(_, _, _)
sync_loop(st, feed, now) ==
    IF feed = <<>> THEN st
    ELSE sync_loop(process_event(st, Head(feed), now), Tail(feed), now)

-----------------------------------------------------------------------------
(* The free_slots table macro. *)

HalfHour == 30 * Minute

\* WITH RECURSIVE time_slots: start_date, then + 30 minutes while that is
\* before end_date.
RECURSIVE time_slots_from(_, _)
time_slots_from(slot_start, end_date) ==
    {slot_start} \cup
        IF slot_start + HalfHour < end_date
        THEN time_slots_from(slot_start + HalfHour, end_date)
        ELSE {}

time_slots(start_date, end_date) == time_slots_from(start_date, end_date)

\* busy_times: the confirmed events inside [start_date, end_date].
busy_times(tbl, start_date, end_date) ==
    {[start_time |-> tbl[i].start_time, end_time |-> tbl[i].end_time] :
        i \in {j \in DOMAIN tbl :
                  /\ tbl[j].status = "confirmed"
                  /\ tbl[j].start_time >= start_date
                  /\ tbl[j].end_time <= end_date}}

\* slot_start + INTERVAL (duration_minutes || ' minutes')
slot_end_of(slot_start, duration_minutes) == slot_start + duration_minutes * Minute

\* Mutant: the test forgets the slot's length.
conflicts_at_start(busy, slot_start, duration_minutes) ==
    /\ busy.start_time <= slot_start
    /\ busy.end_time > slot_start

\* Mutant: the two comparisons are not strict, a busy interval that touches
\* the slot counts as a conflict.
conflicts_touching(busy, slot_start, duration_minutes) ==
    /\ busy.start_time <= slot_end_of(slot_start, duration_minutes)
    /\ busy.end_time >= slot_start

\* The WHERE of the NOT EXISTS subquery.
conflicts(busy, slot_start, duration_minutes) ==
    /\ busy.start_time < slot_end_of(slot_start, duration_minutes)
    /\ busy.end_time > slot_start

\* EXTRACT(hour FROM slot_start) BETWEEN 9 AND 17
business_hours(slot_start) ==
    ExtractHour(slot_start) >= 9 /\ ExtractHour(slot_start) <= 17

\* EXTRACT(dow FROM slot_start) BETWEEN 1 AND 5
\* Mutant: the filter lets Saturday through.
weekdays_and_saturday(slot_start) ==
    ExtractDow(slot_start) >= 1 /\ ExtractDow(slot_start) <= 6

weekdays(slot_start) ==
    ExtractDow(slot_start) >= 1 /\ ExtractDow(slot_start) <= 5

free_slots(tbl, start_date, end_date, duration_minutes) ==
    {[slot_start |-> s, slot_end |-> slot_end_of(s, duration_minutes)] :
        s \in {t \in time_slots(start_date, end_date) :
                 /\ ~\E b \in busy_times(tbl, start_date, end_date) :
                        conflicts(b, t, duration_minutes)
                 /\ business_hours(t)
                 /\ weekdays(t)}}

-----------------------------------------------------------------------------
(* Inputs: the raw events a response body may hold. *)

home  == [email |-> Email("example.com")]
home2 == [email |-> Email("example.com")]
other == [email |-> Email("other.com")]

\* id e1, confirmed, Friday 10:00-11:00, one external attendee.
RawStandup ==
    [id |-> "e1", title |-> "Standup", description |-> "daily",
     start_time |-> Iso(At(4, 10, 0)), end_time |-> Iso(At(4, 11, 0)),
     attendees |-> <<home, other>>, creator |-> [email |-> Email("example.com")],
     status |-> "confirmed", location |-> "Room 1", recurring |-> TRUE]

\* id e1 again with another title and end; the optional keys are absent.
RawStandupMoved ==
    [id |-> "e1", title |-> "Standup (moved)",
     start_time |-> Iso(At(4, 10, 0)), end_time |-> Iso(At(4, 11, 30)),
     attendees |-> <<home, home2>>]

\* id e2, end_time before start_time.
RawBackwards ==
    [id |-> "e2", title |-> "Backwards",
     start_time |-> Iso(At(4, 15, 0)), end_time |-> Iso(At(4, 14, 0)),
     status |-> "confirmed"]

\* id e3, no start_time key: the transform raises KeyError.
RawNoStart ==
    [id |-> "e3", title |-> "Broken", end_time |-> Iso(At(4, 12, 0))]

\* id e3, tentative, Friday 13:00-14:00.
RawLunch ==
    [id |-> "e3", title |-> "Lunch",
     start_time |-> Iso(At(4, 13, 0)), end_time |-> Iso(At(4, 14, 0)),
     attendees |-> <<home>>, status |-> "tentative"]

RawEvents ==
    {RawStandup, RawStandupMoved, RawBackwards, RawNoStart, RawLunch}

FeedsOver(raws) == UNION {[1..n -> raws] : n \in 0..MaxFeed}

Feeds == FeedsOver(RawEvents)

\* The table a sync of feed writes into an empty one at time now.
Synced(feed, now) ==
    sync_loop([store |-> <<>>, stats |-> NoStats], feed, now).store

\* data/analytics.duckdb outlives the process (CREATE TABLE IF NOT EXISTS): the
\* table starts empty or as an earlier process left it.
PersistedStores == {<<>>, Synced(<<RawStandupMoved>>, 0)}

-----------------------------------------------------------------------------
(* GraphQLDirectMCP (graphql-direct/server.py): the values of              *)
(* _schema_cache and the get_graphql_schema calls of one process.          *)

\* The number of get_graphql_schema calls of the process.
MaxSchemaCalls == 3

SchemaCalls == 1..MaxSchemaCalls

\* Python values: None, and a dict with its items.
PyNone == [type |-> "NoneType"]
Dict(items) == [type |-> "dict", items |-> items]
EmptyDict == [type |-> "dict", items |-> <<>>]

\* No answer yet, and no value of response.json() yet.
NoDoc == [kind |-> "none", types |-> <<>>]

NoResponse == [type |-> "none"]

\* A call: where it stands, whether it sent the introspection request, the
\* value of response.json() it assigned to the cache, and what it returned.
NoCall == [pc |-> "idle", sent |-> FALSE, json |-> NoResponse, answer |-> NoDoc]

schema_vars == <<schema_cache, schema_call>>

\* self._schema_cache = None in __init__, and no call has begun.
SchemaIdle ==
    /\ schema_cache = PyNone
    /\ schema_call = [c \in SchemaCalls |-> NoCall]

-----------------------------------------------------------------------------
(* sync_calendar_data: _handle_sync_data, one coroutine per call. *)

Calls == {"c1", "c2"}

NoResult == [kind |-> "none", stats |-> NoStats, total |-> 0, error |-> ""]
ErrorResult(msg) == [kind |-> "error", stats |-> NoStats, total |-> 0, error |-> msg]
StatsResult(stats, total) ==
    [kind |-> "stats", stats |-> stats, total |-> total, error |-> ""]

NoPrev ==
    [valid |-> FALSE, feed |-> <<>>, store |-> <<>>, before |-> [c \in Calls |-> 0]]
NoQuery == [asked |-> FALSE, start_date |-> 0, end_date |-> 0, duration_minutes |-> 0]
NoAnswer == [kind |-> "none", arg |-> <<>>, sql |-> <<>>, rows |-> 0]
NoReport == [kind |-> "none"]

\* Mutant: the status of the response is never looked at.
raise_for_status_never(code) == FALSE

\* response.raise_for_status(): raises for a 4xx or 5xx status.
raise_for_status(code) == code >= 400

StatusCodes == {200, 404, 500}

Init ==
    /\ store \in PersistedStores
    /\ clock = 1
    /\ pc = [c \in Calls |-> "idle"]
    /\ token = [c \in Calls |-> FALSE]
    /\ status = [c \in Calls |-> 0]
    /\ events_data = [c \in Calls |-> <<>>]
    /\ sync_stats = [c \in Calls |-> NoStats]
    /\ result = [c \in Calls |-> NoResult]
    /\ prev = NoPrev
    /\ query = NoQuery
    /\ slots = {}
    /\ answer = NoAnswer
    /\ report = NoReport
    /\ SchemaIdle

\* The call starts: _get_api_token() returns the token or raises ValueError, which
\* the outer except turns into the error result.
SyncStart(c) ==
    /\ pc[c] = "idle"
    /\ \E tok \in BOOLEAN :
          /\ token' = [token EXCEPT ![c] = tok]
          /\ IF tok
             THEN /\ pc' = [pc EXCEPT ![c] = "fetching"]
                  /\ result' = result
             ELSE /\ pc' = [pc EXCEPT ![c] = "done"]
                  /\ result' = [result EXCEPT ![c] = ErrorResult("API token not found")]
    /\ sync_stats' = [sync_stats EXCEPT ![c] = NoStats]
    /\ prev' = [prev EXCEPT !.before[c] = Len(store)]
    /\ UNCHANGED <<store, clock, status, events_data, query, slots, answer,
                   report, schema_vars>>

\* await client.get(...) raises (no response): status -1.
FetchRaises(c) ==
    /\ pc[c] = "fetching"
    /\ status' = [status EXCEPT ![c] = -1]
    /\ pc' = [pc EXCEPT ![c] = "done"]
    /\ result' = [result EXCEPT ![c] = ErrorResult("request failed")]
    /\ UNCHANGED <<store, clock, token, events_data, sync_stats, prev, query,
                   slots, answer, report, schema_vars>>

\* await client.get(...) returns a response; raise_for_status, response.json(),
\* then the whole for loop, which awaits nothing.
FetchReturnsFrom(c, feeds) ==
    /\ pc[c] = "fetching"
    /\ \E code \in StatusCodes, feed \in feeds :
          /\ status' = [status EXCEPT ![c] = code]
          /\ IF raise_for_status(code)
             THEN /\ pc' = [pc EXCEPT ![c] = "done"]
                  /\ result' = [result EXCEPT ![c] = ErrorResult("HTTP status error")]
                  /\ UNCHANGED <<store, clock, events_data, sync_stats, prev>>
             ELSE LET st == sync_loop(
                                [store |-> store,
                                 stats |-> [NoStats EXCEPT !.fetched = Len(feed)]],
                                feed, clock)
                  IN /\ store' = st.store
                     /\ sync_stats' = [sync_stats EXCEPT ![c] = st.stats]
                     /\ events_data' = [events_data EXCEPT ![c] = feed]
                     /\ prev' = [prev EXCEPT !.valid = TRUE, !.feed = feed,
                                              !.store = st.store]
                     /\ clock' = clock + 1
                     /\ pc' = [pc EXCEPT ![c] = "closing"]
                     /\ result' = result
    /\ UNCHANGED <<token, query, slots, answer, report, schema_vars>>

FetchReturns(c) == FetchReturnsFrom(c, Feeds)

\* The AsyncClient is closed (an await), then the response text is built with
\* SELECT COUNT(*) FROM events and returned.
SyncReturns(c) ==
    /\ pc[c] = "closing"
    /\ result' = [result EXCEPT ![c] = StatsResult(sync_stats[c], Len(store))]
    /\ pc' = [pc EXCEPT ![c] = "done"]
    /\ UNCHANGED <<store, clock, token, status, events_data, sync_stats, prev,
                   query, slots, answer, report, schema_vars>>

Next ==
    \E c \in Calls :
        \/ SyncStart(c)
        \/ FetchRaises(c)
        \/ FetchReturns(c)
        \/ SyncReturns(c)

Spec == Init /\ [][Next]_vars

-----------------------------------------------------------------------------
(* query_database running SELECT * FROM free_slots(...): the macro as a     *)
(* function of the table and its three arguments.                          *)

\* Confirmed events before, inside, and across the ends of a working day.
RawEarly ==
    [id |-> "e4", title |-> "Early",
     start_time |-> Iso(At(4, 8, 30)), end_time |-> Iso(At(4, 9, 30)),
     status |-> "confirmed"]

RawLate ==
    [id |-> "e5", title |-> "Late",
     start_time |-> Iso(At(4, 16, 30)), end_time |-> Iso(At(4, 17, 30)),
     status |-> "confirmed"]

\* id e14, cancelled, Friday 11:00-12:00, right after the standup.
RawCancelled ==
    [id |-> "e14", title |-> "Retro",
     start_time |-> Iso(At(4, 11, 0)), end_time |-> Iso(At(4, 12, 0)),
     status |-> "cancelled"]

SlotRawEvents == {RawStandup, RawLunch, RawEarly, RawLate, RawCancelled}

SlotStores == {Synced(feed, 1) : feed \in FeedsOver(SlotRawEvents)}

\* Friday 00:00, 09:00, 10:15; Saturday 09:00; Sunday 09:00.
StartDates == {At(4, 0, 0), At(4, 9, 0), At(4, 10, 15), At(5, 9, 0), At(6, 9, 0)}

\* Friday 09:00, 09:45, 12:00, 17:00, 18:00; Saturday 00:00; Saturday 12:00.
EndDates ==
    {At(4, 9, 0), At(4, 9, 45), At(4, 12, 0), At(4, 17, 0), At(4, 18, 0),
     At(5, 0, 0), At(5, 12, 0)}

Durations == {-30, 0, 30, 45, 60, 90}

SlotInit ==
    /\ store \in SlotStores
    /\ clock = 2
    /\ pc = [c \in Calls |-> "idle"]
    /\ token = [c \in Calls |-> FALSE]
    /\ status = [c \in Calls |-> 0]
    /\ events_data = [c \in Calls |-> <<>>]
    /\ sync_stats = [c \in Calls |-> NoStats]
    /\ result = [c \in Calls |-> NoResult]
    /\ prev = NoPrev
    /\ query = NoQuery
    /\ slots = {}
    /\ answer = NoAnswer
    /\ report = NoReport
    /\ SchemaIdle

\* The query reads the table and keeps nothing, so one query per behaviour, over
\* every table and every argument triple, covers every call of it.
FreeSlotsQuery ==
    /\ ~query.asked
    /\ \E start_date \in StartDates, end_date \in EndDates, d \in Durations :
          /\ query' = [asked |-> TRUE, start_date |-> start_date,
                       end_date |-> end_date, duration_minutes |-> d]
          /\ slots' = free_slots(store, start_date, end_date, d)
    /\ UNCHANGED <<store, clock, pc, token, status, events_data, sync_stats,
                   result, prev, answer, report, schema_vars>>

SlotNext == FreeSlotsQuery

SlotSpec == SlotInit /\ [][SlotNext]_vars

-----------------------------------------------------------------------------
(* One sync call over longer response bodies: records that fail in the     *)
(* transform or in the INSERT, at every position of the batch, and the     *)
(* attendee lists and times the transform derives its fields from.         *)

MaxBatch == 3

guest == [name |-> "Guest"]

\* id e6, "title": null: the INSERT violates title VARCHAR NOT NULL.
RawNullTitle ==
    [id |-> "e6", title |-> None,
     start_time |-> Iso(At(4, 9, 0)), end_time |-> Iso(At(4, 9, 30))]

\* id e1, start_time is not an ISO string: fromisoformat raises ValueError.
RawBadIso ==
    [id |-> "e1", title |-> "Standup",
     start_time |-> NotIso, end_time |-> Iso(At(4, 11, 0))]

\* id e8, Friday 09:00:00-10:30:00, one external attendee; the body carries a
\* duration_minutes of its own.
RawNinety ==
    [id |-> "e8", title |-> "Review",
     start_time |-> Iso(At(4, 9, 0)), end_time |-> Iso(At(4, 10, 30)),
     attendees |-> <<other>>, duration_minutes |-> 15]

\* id e9, Friday 11:00:00-11:45:59, two attendees of the company domain.
RawSeconds ==
    [id |-> "e9", title |-> "Call",
     start_time |-> Iso(At(4, 11, 0)), end_time |-> Iso(At(4, 11, 45) + 59),
     attendees |-> <<home, home2>>]

\* id e2, end_time 90 seconds before start_time, an attendee without an email.
RawBackSeconds ==
    [id |-> "e2", title |-> "Backwards",
     start_time |-> Iso(At(4, 15, 0)), end_time |-> Iso(At(4, 14, 58) + 30),
     attendees |-> <<home, guest>>]

\* id e7, with a description and a location, without status and recurring.
RawPartial ==
    [id |-> "e7", title |-> "Planning", description |-> "quarterly",
     start_time |-> Iso(At(4, 14, 0)), end_time |-> Iso(At(4, 15, 0)),
     location |-> "Room 2"]

BatchRawEvents ==
    {RawStandup, RawStandupMoved, RawLunch, RawNoStart, RawNullTitle,
     RawBadIso, RawNinety, RawSeconds, RawBackSeconds, RawPartial}

BatchFeeds == UNION {[1..n -> BatchRawEvents] : n \in 0..MaxBatch}

BatchStores == {<<>>, Synced(<<RawStandupMoved, RawLunch>>, 0)}

BatchInit ==
    /\ store \in BatchStores
    /\ clock = 1
    /\ pc = [c \in Calls |-> "idle"]
    /\ token = [c \in Calls |-> FALSE]
    /\ status = [c \in Calls |-> 0]
    /\ events_data = [c \in Calls |-> <<>>]
    /\ sync_stats = [c \in Calls |-> NoStats]
    /\ result = [c \in Calls |-> NoResult]
    /\ prev = NoPrev
    /\ query = NoQuery
    /\ slots = {}
    /\ answer = NoAnswer
    /\ report = NoReport
    /\ SchemaIdle

BatchFetchReturns == FetchReturnsFrom("c1", BatchFeeds)

BatchNext ==
    \/ SyncStart("c1")
    \/ FetchRaises("c1")
    \/ BatchFetchReturns
    \/ SyncReturns("c1")

BatchSpec == BatchInit /\ [][BatchNext]_vars

-----------------------------------------------------------------------------
(* query_database: _handle_database_query.  The sql argument is a sequence *)
(* of pieces of text: a blank, a semicolon, or the text of one statement.  *)

MaxSql == 3

Blank == " "
Semicolon == ";"
SelectEvents == "SELECT * FROM events"
SelectMissing == "SELECT * FROM meetings"
DeleteEvents == "DELETE FROM events"
UpdateEvents == "UPDATE events SET status = 'cancelled'"
Misspelt == "SELEC * FROM events"

Pieces ==
    {Blank, Semicolon, SelectEvents, SelectMissing, DeleteEvents, UpdateEvents,
     Misspelt}

SqlTexts == UNION {[1..n -> Pieces] : n \in 0..MaxSql}

\* str.strip(): the text without its leading and trailing blanks.
RECURSIVE lstrip(_)
lstrip(sql) ==
    IF sql # <<>> /\ Head(sql) = Blank THEN lstrip(Tail(sql)) ELSE sql

RECURSIVE rstrip(_)
rstrip(sql) ==
    IF sql # <<>> /\ sql[Len(sql)] = Blank
    THEN rstrip(SubSeq(sql, 1, Len(sql) - 1))
    ELSE sql

strip(sql) == rstrip(lstrip(sql))

\* The parser splits the text at its semicolons; a segment is the sequence of
\* its pieces that are not blanks.
RECURSIVE segments(_, _)
segments(sql, current) ==
    IF sql = <<>> THEN <<current>>
    ELSE IF Head(sql) = Semicolon THEN <<current>> \o segments(Tail(sql), <<>>)
    ELSE IF Head(sql) = Blank THEN segments(Tail(sql), current)
    ELSE segments(Tail(sql), Append(current, Head(sql)))

\* A segment parses when it is empty (an empty statement) or one statement.
parses(segment) ==
    segment = <<>> \/ (Len(segment) = 1 /\ segment[1] # Misspelt)

\* Mutant: the text is not parsed as a whole before its first statement runs.
syntax_error_never(sql) == FALSE

\* The whole text is parsed before any statement runs: one segment that does
\* not parse raises a Parser Error.
syntax_error(sql) ==
    \E i \in DOMAIN segments(sql, <<>>) : ~parses(segments(sql, <<>>)[i])

\* The statements of a text that parses, in order.
statements(sql) ==
    LET segs == segments(sql, <<>>)
        F[i \in 0..Len(segs)] ==
            IF i = 0 THEN <<>>
            ELSE IF segs[i] = <<>> THEN F[i - 1]
            ELSE Append(F[i - 1], segs[i][1])
    IN F[Len(segs)]

\* One statement on the table: [ok, store, rows].  In autocommit mode its effect
\* is committed when it ends; a statement that raises changes nothing.
run_statement(tbl, statement) ==
    IF statement = SelectMissing \/ statement = Misspelt
    THEN [ok |-> FALSE, store |-> tbl, rows |-> 0]
    ELSE IF statement = SelectEvents
    THEN [ok |-> TRUE, store |-> tbl, rows |-> Len(tbl)]
    ELSE IF statement = DeleteEvents
    THEN [ok |-> TRUE, store |-> <<>>, rows |-> 1]
    ELSE [ok |-> TRUE,
          store |-> [i \in DOMAIN tbl |-> [tbl[i] EXCEPT !.status = "cancelled"]],
          rows |-> 1]

\* self.db.execute(sql): the statements run one after the other, each in its own
\* transaction, up to the first that raises; rows is the result of the last.
RECURSIVE run_statements(_, _)
run_statements(st, todo) ==
    IF todo = <<>> \/ ~st.ok THEN st
    ELSE run_statements(run_statement(st.store, Head(todo)), Tail(todo))

execute(tbl, sql) ==
    IF syntax_error(sql) THEN [ok |-> FALSE, store |-> tbl, rows |-> 0]
    ELSE run_statements([ok |-> TRUE, store |-> tbl, rows |-> 0], statements(sql))

\* What the call returned: arg is the sql argument it was given, sql the text its
\* response quotes, rows the number of rows it reports.
RequiredAnswer(arg) == [kind |-> "required", arg |-> arg, sql |-> <<>>, rows |-> 0]
ErrorAnswer(arg, sql) == [kind |-> "error", arg |-> arg, sql |-> sql, rows |-> 0]
EmptyAnswer(arg) == [kind |-> "no results", arg |-> arg, sql |-> <<>>, rows |-> 0]
RowsAnswer(arg, sql, n) == [kind |-> "rows", arg |-> arg, sql |-> sql, rows |-> n]

QueryStores == {Synced(feed, 1) : feed \in {<<>>, <<RawStandup>>, <<RawStandup, RawLunch>>}}

QueryInit ==
    /\ store \in QueryStores
    /\ clock = 2
    /\ pc = [c \in Calls |-> "idle"]
    /\ token = [c \in Calls |-> FALSE]
    /\ status = [c \in Calls |-> 0]
    /\ events_data = [c \in Calls |-> <<>>]
    /\ sync_stats = [c \in Calls |-> NoStats]
    /\ result = [c \in Calls |-> NoResult]
    /\ prev = NoPrev
    /\ query = NoQuery
    /\ slots = {}
    /\ answer = NoAnswer
    /\ report = NoReport
    /\ SchemaIdle

\* The handler has no await: it runs from its first line to its return in one
\* step.  One call per behaviour, over every table and every text.
QueryDatabase ==
    /\ answer = NoAnswer
    /\ \E arg \in SqlTexts :
          LET sql == strip(arg) IN
          IF sql = <<>>
          THEN /\ answer' = RequiredAnswer(arg)
               /\ store' = store
          ELSE LET done == execute(store, sql) IN
               /\ store' = done.store
               /\ \/ /\ ~done.ok
                     /\ answer' = ErrorAnswer(arg, sql)
                  \/ /\ done.ok /\ done.rows = 0
                     /\ answer' = EmptyAnswer(arg)
                  \* a text of semicolons only holds no statement: fetchall()
                  \* then has no result to read, and returns [] or raises.
                  \/ /\ done.ok /\ statements(sql) = <<>>
                     /\ answer' = ErrorAnswer(arg, sql)
                  \/ /\ done.ok /\ done.rows > 0
                     /\ answer' = RowsAnswer(arg, sql, done.rows)
    /\ UNCHANGED <<clock, pc, token, status, events_data, sync_stats, result,
                   prev, query, slots, report, schema_vars>>

QueryNext == QueryDatabase

QuerySpec == QueryInit /\ [][QueryNext]_vars

-----------------------------------------------------------------------------
(* Floating point.  SUM(duration_minutes) / 60.0 is a DOUBLE in DuckDB and  *)
(* a float in Python, and the report's arithmetic is float arithmetic: each *)
(* operation gives the double nearest to the exact result, ties to even.    *)
(* A double is [neg, mant, exp], its value mant * 2^exp with mant zero or   *)
(* of exactly Precision bits.  A mantissa is a natural number of up to 60   *)
(* bits, held as three limbs of 20 bits, the high limb first.               *)

Precision == 53

Limb == 1048576

Big(n) == <<0, n \div Limb, n % Limb>>

BigZero == <<0, 0, 0>>

BigGe(a, b) ==
    \/ a[1] > b[1]
    \/ a[1] = b[1] /\ a[2] > b[2]
    \/ a[1] = b[1] /\ a[2] = b[2] /\ a[3] >= b[3]

\* a - b, for a >= b
BigSub(a, b) ==
    LET d3 == a[3] - b[3]
        d2 == a[2] - b[2] - (IF d3 < 0 THEN 1 ELSE 0)
        d1 == a[1] - b[1] - (IF d2 < 0 THEN 1 ELSE 0)
    IN <<d1, d2 % Limb, d3 % Limb>>

\* a * c + d, for c <= 1024 and d < Limb
BigTimesPlus(a, c, d) ==
    LET p3 == a[3] * c + d
        p2 == a[2] * c + (p3 \div Limb)
        p1 == a[1] * c + (p2 \div Limb)
    IN <<p1, p2 % Limb, p3 % Limb>>

Pow2(n) == 2 ^ n

\* The number of bits of a limb, and of a number.
LimbLen(x) == CHOOSE n \in 0..20 : x < Pow2(n) /\ (n = 0 \/ x >= Pow2(n - 1))

BigLen(a) ==
    IF a[1] > 0 THEN 40 + LimbLen(a[1])
    ELSE IF a[2] > 0 THEN 20 + LimbLen(a[2])
    ELSE LimbLen(a[3])

\* Bit i of a, bit 0 the lowest.
BigBit(a, i) == (a[3 - (i \div 20)] \div Pow2(i % 20)) % 2

\* The value of an expression, worked out once: The({e(x) : x \in {d}}) is e(d).
The(S) == CHOOSE v \in S : TRUE

\* Long division, one quotient bit a step: r is the remainder, m the first
\* Precision significant bits of the quotient, n the number of significant bits
\* so far, rnd the bit after m, sticky whether a later bit was 1.
DivStart == [r |-> BigZero, m |-> BigZero, n |-> 0, rnd |-> 0, sticky |-> FALSE]

DivStep(st, bit, q) ==
    The({The({IF st.n = 0 /\ ~one THEN [st EXCEPT !.r = r2]
              ELSE LET r3 == IF one THEN BigSub(r2, q) ELSE r2
                       b  == IF one THEN 1 ELSE 0
                   IN IF st.n < Precision
                      THEN [st EXCEPT !.r = r3, !.m = BigTimesPlus(st.m, 2, b),
                                      !.n = @ + 1]
                      ELSE IF st.n = Precision
                      THEN [st EXCEPT !.r = r3, !.rnd = b, !.n = @ + 1]
                      ELSE [st EXCEPT !.r = r3, !.sticky = @ \/ one, !.n = @ + 1] :
              one \in {BigGe(r2, q)}}) :
         r2 \in {BigTimesPlus(st.r, 2, bit)}})

\* Bit i of the dividend, bit 1 its highest: the len bits of p, then zeros.
NumBit(p, len, i) == IF i <= len THEN BigBit(p, len - i) ELSE 0

DivStepAt(st, p, len, q, i, last) ==
    IF i > last THEN st ELSE DivStep(st, NumBit(p, len, i), q)

\* Steps i..last, eight to a level.
RECURSIVE DivRun(_, _, _, _, _, _)
DivRun(st, p, len, q, i, last) ==
    IF i > last THEN st
    ELSE LET s1 == {DivStepAt(st, p, len, q, i, last)}
             s2 == {DivStepAt(s, p, len, q, i + 1, last) : s \in s1}
             s3 == {DivStepAt(s, p, len, q, i + 2, last) : s \in s2}
             s4 == {DivStepAt(s, p, len, q, i + 3, last) : s \in s3}
             s5 == {DivStepAt(s, p, len, q, i + 4, last) : s \in s4}
             s6 == {DivStepAt(s, p, len, q, i + 5, last) : s \in s5}
             s7 == {DivStepAt(s, p, len, q, i + 6, last) : s \in s6}
             s8 == {DivStepAt(s, p, len, q, i + 7, last) : s \in s7}
         IN The({DivRun(s, p, len, q, j, last) : s \in s8, j \in {i + 8}})

FloatZero == [neg |-> FALSE, mant |-> BigZero, exp |-> 0]

\* The quotient st of a dividend extended by z zero bits, rounded to Precision
\* bits, ties to even, times 2^e.
RoundOff(neg, st, z, e) ==
    LET up   == st.rnd = 1 /\ (st.sticky \/ st.r # BigZero \/ st.m[3] % 2 = 1)
        m1   == IF up THEN BigTimesPlus(st.m, 1, 1) ELSE st.m
        over == BigLen(m1) > Precision
    IN [neg  |-> neg,
        mant |-> IF over THEN <<Pow2(12), 0, 0>> ELSE m1,
        exp  |-> (st.n - Precision) - z + e + (IF over THEN 1 ELSE 0)]

\* The zero bits that give the quotient of a len-bit dividend by a qlen-bit
\* divisor more than Precision + 1 bits.
Extension(len, qlen) ==
    IF Precision + 2 - len + qlen > 0 THEN Precision + 2 - len + qlen ELSE 0

\* The double nearest to (p / q) * 2^e, ties to even.
RoundDiv(neg, p, q, e) ==
    The({IF pv = BigZero THEN FloatZero
         ELSE The({RoundOff(neg, st, z, e) :
                   st \in {DivRun(DivStart, pv, BigLen(pv), qv, 1, BigLen(pv) + z)}}) :
         pv \in {p}, qv \in {q}, z \in {Extension(BigLen(p), BigLen(q))}})

Abs(n) == IF n < 0 THEN -n ELSE n

\* float(n), exact for the integers of the model.
FromInt(n) == The({RoundDiv(k < 0, Big(Abs(k)), Big(1), 0) : k \in {n}})

\* a / b for b # 0
FloatDiv(a, b) ==
    The({RoundDiv(x.neg # y.neg, x.mant, y.mant, x.exp - y.exp) :
         x \in {a}, y \in {b}})

\* a * c for an integer 0 < c <= 1024
FloatTimesInt(a, c) ==
    The({RoundDiv(x.neg, BigTimesPlus(x.mant, c, 0), Big(1), x.exp) : x \in {a}})

\* a > c for an integer c >= 0
FloatGtInt(a, c) ==
    \E x \in {a} :
        /\ ~x.neg /\ x.mant # BigZero
        /\ \/ c = 0
           \/ \E y \in {FromInt(c)} :
                 \/ x.exp > y.exp
                 \/ x.exp = y.exp /\ x.mant # y.mant /\ BigGe(x.mant, y.mant)

\* a >= b of two doubles (ORDER BY hours DESC).
FloatMagGt(x, y) ==
    /\ x.mant # BigZero
    /\ \/ y.mant = BigZero
       \/ x.exp > y.exp
       \/ x.exp = y.exp /\ x.mant # y.mant /\ BigGe(x.mant, y.mant)

FloatGt(a, b) ==
    \E x \in {a}, y \in {b} :
        IF x.mant = BigZero THEN y.neg /\ y.mant # BigZero
        ELSE IF y.mant = BigZero THEN ~x.neg
        ELSE IF x.neg # y.neg THEN y.neg
        ELSE IF x.neg THEN FloatMagGt(y, x)
        ELSE FloatMagGt(x, y)

FloatGe(a, b) == ~FloatGt(b, a)

\* Python's a / b: ZeroDivisionError when b is zero.
truediv(a, b) ==
    The({IF y.mant = BigZero THEN [raised |-> TRUE, value |-> FloatZero]
         ELSE [raised |-> FALSE, value |-> FloatDiv(x, y)] :
         x \in {a}, y \in {b}})

-----------------------------------------------------------------------------
(* generate_meeting_insights: _handle_generate_insights. *)

MaxMeetings == 2

\* timedelta(days=7), (days=30), and (days=90) for anything else.
window_days(time_period) ==
    IF time_period = "week" THEN 7
    ELSE IF time_period = "month" THEN 30
    ELSE 90

\* Mutant: the WHERE clause without its status test.
confirmed_between_any_status(tbl, start_date, end_date) ==
    SelectSeq(tbl, LAMBDA r : /\ r.start_time >= start_date
                              /\ r.start_time <= end_date)

\* WHERE start_time >= ? AND start_time <= ? AND status = 'confirmed'
confirmed_between(tbl, start_date, end_date) ==
    SelectSeq(tbl, LAMBDA r : /\ r.start_time >= start_date
                              /\ r.start_time <= end_date
                              /\ r.status = "confirmed")

\* SUM(duration_minutes)
RECURSIVE sum_duration_minutes(_)
sum_duration_minutes(rows) ==
    IF rows = <<>> THEN 0
    ELSE Head(rows).duration_minutes + sum_duration_minutes(Tail(rows))

\* ... / 60.0
hours_of(minutes) == FloatDiv(FromInt(minutes), FromInt(60))

\* Mutant: the breakdown query does not see the row written last.
meeting_breakdown_without_last(rows) ==
    {[meeting_type |-> t,
      count |-> Len(SelectSeq(SubSeq(rows, 1, Len(rows) - 1),
                              LAMBDA r : r.meeting_type = t)),
      hours |-> hours_of(sum_duration_minutes(
                             SelectSeq(SubSeq(rows, 1, Len(rows) - 1),
                                       LAMBDA r : r.meeting_type = t)))] :
        t \in {rows[i].meeting_type : i \in 1..(Len(rows) - 1)}}

\* SELECT meeting_type, COUNT(*), SUM(duration_minutes) / 60.0 ... GROUP BY
\* meeting_type: one row a type, as a set (its order is the order of the text).
meeting_breakdown(rows) ==
    {[meeting_type |-> t,
      count |-> Len(SelectSeq(rows, LAMBDA r : r.meeting_type = t)),
      hours |-> hours_of(sum_duration_minutes(
                             SelectSeq(rows, LAMBDA r : r.meeting_type = t)))] :
        t \in {rows[i].meeting_type : i \in DOMAIN rows}}

\* SELECT DATE(start_time), COUNT(*), SUM(duration_minutes) / 60.0 ... GROUP BY
\* DATE(start_time): one row a day, the date as the number of the day.
busiest_days(rows) ==
    {[date |-> d,
      meetings |-> Len(SelectSeq(rows, LAMBDA r : r.start_time \div Day = d)),
      hours |-> hours_of(sum_duration_minutes(
                             SelectSeq(rows, LAMBDA r : r.start_time \div Day = d)))] :
        d \in {rows[i].start_time \div Day : i \in DOMAIN rows}}

\* ORDER BY hours DESC LIMIT 5: the results the query may give, each a set of
\* up to five days none of which has fewer hours than a day left out.
top_days(days) ==
    {top \in SUBSET days :
        /\ Cardinality(top) = (IF Cardinality(days) < 5 THEN Cardinality(days) ELSE 5)
        /\ \A d \in top, e \in days \ top : FloatGe(d.hours, e.hours)}

Returned(value) == [raised |-> FALSE, value |-> value]

\* Mutant: the average without its total_meetings > 0 test.
average_meeting_length_unguarded(total_hours, total_meetings) ==
    truediv(FloatTimesInt(total_hours, 60), FromInt(total_meetings))

\* (total_hours * 60 / total_meetings) if total_meetings > 0 else 0
average_meeting_length(total_hours, total_meetings) ==
    IF total_meetings > 0
    THEN truediv(FloatTimesInt(total_hours, 60), FromInt(total_meetings))
    ELSE Returned(FloatZero)

\* x / total_hours * 100
percent_of(x, total_hours) ==
    The({IF ratio.raised THEN ratio ELSE Returned(FloatTimesInt(ratio.value, 100)) :
         ratio \in {truediv(x, total_hours)}})

\* (hours / total_hours * 100) if total_hours > 0 else 0
percentage(hours, total_hours) ==
    IF FloatGtInt(total_hours, 0) THEN percent_of(hours, total_hours)
    ELSE Returned(FloatZero)

\* Python values of the two types the generator below compares.
PyInt(n) == [type |-> "int", value |-> n]
PyStr(str) == [type |-> "str", value |-> str]

\* a == b: values of different types are not equal.
py_eq(a, b) == a.type = b.type /\ a.value = b.value

\* sum(hours for _, _, hours in meeting_breakdown if _ == "external"): the two
\* targets named _ are bound in turn, so _ is the row's count when the test
\* reads it.
external_rows(breakdown) ==
    {b \in breakdown : py_eq(PyInt(b.count), PyStr("external"))}

\* sum(...) starts from the int 0; the breakdown has one row a type, so at most
\* one row is added.
external_hours(breakdown) ==
    IF external_rows(breakdown) = {} THEN FromInt(0)
    ELSE (CHOOSE b \in external_rows(breakdown) : TRUE).hours

HighLoad == "High meeting load"
HighExternal == "High external meeting ratio"
LongAverage == "Long average meeting duration"
ScheduleReview == "Schedule review"

\* The lines under "Recommendations", in the order the code appends them.
recommendations(breakdown, total_hours, total_meetings) ==
    The({[raised |-> external_percentage.raised \/ avg_meeting_length.raised,
          value  |->
              (IF FloatGtInt(total_hours, 20) THEN <<HighLoad>> ELSE <<>>)
              \o (IF FloatGtInt(external_percentage.value, 60)
                  THEN <<HighExternal>> ELSE <<>>)
              \o (IF FloatGtInt(avg_meeting_length.value, 45)
                  THEN <<LongAverage>> ELSE <<>>)
              \o <<ScheduleReview>>] :
         external_percentage \in
             {percent_of(external_hours(breakdown), total_hours)},
         avg_meeting_length \in
             {average_meeting_length(total_hours, total_meetings)}})

ErrorReport(time_period, end_date) ==
    [kind |-> "error", time_period |-> time_period, end_date |-> end_date]

\* The report built from the rows of the window, their total and their
\* breakdown: the Overview, the Meeting Breakdown and the Recommendations.
insights_text(time_period, include_recommendations, end_date, rows, total_hours, breakdown) ==
    The({IF \/ per_day.raised \/ average.raised \/ advice.raised
            \/ \E b \in shares : b.percentage.raised
         THEN ErrorReport(time_period, end_date)
         ELSE [kind |-> "report",
               time_period |-> time_period,
               include_recommendations |-> include_recommendations,
               end_date |-> end_date,
               total_meetings |-> Len(rows),
               total_hours |-> total_hours,
               average_per_day |-> per_day.value,
               average_meeting_length |-> average.value,
               breakdown |-> {[b EXCEPT !.percentage = @.value] : b \in shares},
               recommendations |-> advice.value] :
         per_day \in {truediv(total_hours, FromInt(window_days(time_period)))},
         average \in {average_meeting_length(total_hours, Len(rows))},
         shares  \in {{[meeting_type |-> b.meeting_type, count |-> b.count,
                        hours |-> b.hours,
                        percentage |-> percentage(b.hours, total_hours)] :
                           b \in breakdown}},
         advice  \in {IF include_recommendations /\ FloatGtInt(total_hours, 0)
                      THEN recommendations(breakdown, total_hours, Len(rows))
                      ELSE Returned(<<>>)}})

\* The try block: the queries over the window that ends now, and the text
\* without its Busiest Days lines.
generate_insights(tbl, time_period, include_recommendations, now) ==
    The({insights_text(time_period, include_recommendations, now, rows,
                       total_hours, meeting_breakdown(rows)) :
         rows \in {confirmed_between(tbl, now - window_days(time_period) * Day, now)},
         total_hours \in
             {hours_of(sum_duration_minutes(
                 confirmed_between(tbl, now - window_days(time_period) * Day, now)))}})

\* Friday 14:00-14:48, one external attendee.
RawExternal48 ==
    [id |-> "e10", title |-> "Customer",
     start_time |-> Iso(At(4, 14, 0)), end_time |-> Iso(At(4, 14, 48)),
     attendees |-> <<home, other>>]

\* Friday 15:00-15:32, internal.
RawInternal32 ==
    [id |-> "e11", title |-> "Sync",
     start_time |-> Iso(At(4, 15, 0)), end_time |-> Iso(At(4, 15, 32)),
     attendees |-> <<home, home2>>]

\* Thursday 09:00 to Friday 06:00, 21 hours, one external attendee.
RawOffsite ==
    [id |-> "e12", title |-> "Offsite",
     start_time |-> Iso(At(3, 9, 0)), end_time |-> Iso(At(4, 6, 0)),
     attendees |-> <<other>>]

\* Wednesday 09:00 to Thursday 05:00, 20 hours, internal.
RawWorkshop ==
    [id |-> "e13", title |-> "Workshop",
     start_time |-> Iso(At(2, 9, 0)), end_time |-> Iso(At(3, 5, 0)),
     attendees |-> <<home, home2>>]

InsightRawEvents ==
    {RawStandup, RawLunch, RawBackwards, RawSeconds, RawExternal48,
     RawInternal32, RawOffsite, RawWorkshop}

InsightStores ==
    {Synced(feed, 1) : feed \in UNION {[1..n -> InsightRawEvents] : n \in 0..MaxMeetings}}

\* That Friday at 14:30, with meetings of the table still to come, and thirty
\* days after that Friday at 10:00.
InsightClocks == {At(4, 14, 30), At(34, 10, 0)}

TimePeriods == {"week", "month", "quarter", "year"}

InsightsInit ==
    /\ store \in InsightStores
    /\ clock \in InsightClocks
    /\ pc = [c \in Calls |-> "idle"]
    /\ token = [c \in Calls |-> FALSE]
    /\ status = [c \in Calls |-> 0]
    /\ events_data = [c \in Calls |-> <<>>]
    /\ sync_stats = [c \in Calls |-> NoStats]
    /\ result = [c \in Calls |-> NoResult]
    /\ prev = NoPrev
    /\ query = NoQuery
    /\ slots = {}
    /\ answer = NoAnswer
    /\ report = NoReport
    /\ SchemaIdle

\* The report with its Busiest Days lines.
with_busiest_days(text, top) ==
    IF text.kind = "report" THEN text @@ [busiest_days |-> top] ELSE text

\* The handler has no await; it reads the table and the clock and writes
\* nothing.  One call per behaviour, over every table, clock and argument.
GenerateInsights ==
    /\ report.kind = "none"
    /\ \E time_period \in TimePeriods, include_recommendations \in BOOLEAN :
          \E top \in top_days(busiest_days(confirmed_between(
                         store, clock - window_days(time_period) * Day, clock))) :
             report' = with_busiest_days(
                           generate_insights(store, time_period,
                                             include_recommendations, clock), top)
    /\ UNCHANGED <<store, clock, pc, token, status, events_data, sync_stats,
                   result, prev, query, slots, answer, schema_vars>>

InsightsNext == GenerateInsights

InsightsSpec == InsightsInit /\ [][InsightsNext]_vars

-----------------------------------------------------------------------------
(* generate_meeting_insights called while a sync_calendar_data call is in  *)
(* progress: both handlers run on the one event loop, the report handler   *)
(* between any two steps of the sync call.                                 *)

SnapshotRawEvents == {RawExternal48, RawInternal32, RawOffsite, RawLunch}

SnapshotFeeds == FeedsOver(SnapshotRawEvents)

SnapshotStores == {<<>>, Synced(<<RawInternal32>>, 1)}

SnapshotInit ==
    /\ store \in SnapshotStores
    /\ clock = At(4, 16, 0)
    /\ pc = [c \in Calls |-> "idle"]
    /\ token = [c \in Calls |-> FALSE]
    /\ status = [c \in Calls |-> 0]
    /\ events_data = [c \in Calls |-> <<>>]
    /\ sync_stats = [c \in Calls |-> NoStats]
    /\ result = [c \in Calls |-> NoResult]
    /\ prev = NoPrev
    /\ query = NoQuery
    /\ slots = {}
    /\ answer = NoAnswer
    /\ report = NoReport
    /\ SchemaIdle

SnapshotFetchReturns == FetchReturnsFrom("c1", SnapshotFeeds)

SnapshotNext ==
    \/ SyncStart("c1")
    \/ FetchRaises("c1")
    \/ SnapshotFetchReturns
    \/ SyncReturns("c1")
    \/ GenerateInsights

SnapshotSpec == SnapshotInit /\ [][SnapshotNext]_vars

-----------------------------------------------------------------------------
(* get_graphql_schema: _handle_get_schema of graphql-direct/server.py, one *)
(* coroutine per call. A call is suspended only at its awaits: the post of *)
(* the introspection query and the exit of the `async with` block.         *)

\* d.get(key, default) on a dict.
DictGet(d, key, default) ==
    IF key \in DOMAIN d.items THEN d.items[key] ELSE default

\* One entry of __schema.types.
TypeDef(name, kind) == Dict(("name" :> name) @@ ("kind" :> kind))

\* The schema part of an introspection response.
SchemaOf(types) ==
    Dict(("types" :> types) @@ ("queryType" :> Dict("name" :> "Query")))

\* Bodies the endpoint answers with: its schema, its schema after a deploy, a
\* GraphQL error without data, a GraphQL error with "data": null, JSON null
\* and a JSON array.
SchemaBody ==
    Dict("data" :> Dict("__schema" :> SchemaOf(
        <<TypeDef("User", "OBJECT"), TypeDef("__Schema", "OBJECT"),
          TypeDef("String", "SCALAR"), TypeDef("UserInput", "INPUT_OBJECT")>>)))

SchemaBodyNext ==
    Dict("data" :> Dict("__schema" :> SchemaOf(
        <<TypeDef("User", "OBJECT"), TypeDef("Order", "OBJECT")>>)))

ErrorsBody == Dict("errors" :> <<"Introspection is disabled">>)

NullDataBody == Dict("data" :> PyNone)

ListBody == [type |-> "list", items |-> <<>>]

\* What response.json() can return, and NotJson for a body it raises on.
NotJson == [type |-> "JSONDecodeError"]

Bodies == <<SchemaBody, SchemaBodyNext, ErrorsBody, NullDataBody, PyNone,
            ListBody, NotJson>>

\* type_filter: absent, or a string.
TypeFilters == {"", "user"}

\* type_filter.lower() in name.lower(), on the names and filters above.
filter_matches(type_filter, name) ==
    \/ type_filter = ""
    \/ type_filter = "user" /\ name \in {"User", "UserInput"}

\* name.startswith("__")
is_introspection(name) == name \in {"__Schema"}

ShownKinds == {"OBJECT", "INPUT_OBJECT", "ENUM", "INTERFACE"}

RECURSIVE filtered_types(_, _)
\* types_to_show narrowed by type_filter, then filtered_types: the names of
\* the entries the document lists.
filtered_types(types, type_filter) ==
    IF types = <<>> THEN <<>>
    ELSE LET t == Head(types)
             name == DictGet(t, "name", "")
             rest == filtered_types(Tail(types), type_filter)
         IN IF /\ filter_matches(type_filter, name)
               /\ ~is_introspection(name)
               /\ DictGet(t, "kind", "") \in ShownKinds
            THEN <<name>> \o rest
            ELSE rest

SchemaError == [kind |-> "error", types |-> <<>>]

\* The part of the handler after the fetch: self._schema_cache.get("data",
\* {}).get("__schema", {}) and the document built from it. A .get on a value
\* that is not a dict raises, and the except clause returns the error text.
schema_doc(cache, type_filter) ==
    IF cache.type # "dict" THEN SchemaError
    ELSE LET data == DictGet(cache, "data", EmptyDict)
         IN IF data.type # "dict" THEN SchemaError
            ELSE LET schema_data == DictGet(data, "__schema", EmptyDict)
                 IN IF schema_data.type # "dict" THEN SchemaError
                    ELSE [kind |-> "doc",
                          types |-> filtered_types(
                                        DictGet(schema_data, "types", <<>>),
                                        type_filter)]

\* The call begins. With a cache it builds the document from it at once; with
\* none it reads the token (raising when there is none) and posts the
\* introspection query.
SchemaStart(c) ==
    /\ schema_call[c].pc = "idle"
    /\ \E type_filter \in TypeFilters, has_token \in BOOLEAN :
          schema_call' = [schema_call EXCEPT ![c] =
              IF schema_cache # PyNone
              THEN [pc |-> "done", sent |-> FALSE, json |-> NoResponse,
                    answer |-> schema_doc(schema_cache, type_filter)]
              ELSE IF ~has_token
              THEN [pc |-> "done", sent |-> FALSE, json |-> NoResponse,
                    answer |-> SchemaError]
              ELSE [pc |-> "posting", sent |-> TRUE, json |-> NoResponse,
                    answer |-> [kind |-> "none", types |-> <<type_filter>>]]]
    /\ UNCHANGED <<schema_cache, store, clock, pc, token, status, events_data,
                   sync_stats, result, prev, query, slots, answer, report>>

\* await client.post raises (no connection, timeout).
SchemaPostRaises(c) ==
    /\ schema_call[c].pc = "posting"
    /\ schema_call' = [schema_call EXCEPT ![c].pc = "done",
                                          ![c].answer = SchemaError]
    /\ UNCHANGED <<schema_cache, store, clock, pc, token, status, events_data,
                   sync_stats, result, prev, query, slots, answer, report>>

\* await client.post returns: raise_for_status(), then
\* self._schema_cache = response.json().
SchemaPostReturns(c) ==
    /\ schema_call[c].pc = "posting"
    /\ \E code \in StatusCodes, i \in DOMAIN Bodies :
          IF raise_for_status(code) \/ Bodies[i] = NotJson
          THEN /\ schema_call' = [schema_call EXCEPT ![c].pc = "done",
                                                     ![c].answer = SchemaError]
               /\ UNCHANGED schema_cache
          ELSE /\ schema_cache' = Bodies[i]
               /\ schema_call' = [schema_call EXCEPT ![c].pc = "closing",
                                                     ![c].json = Bodies[i]]
    /\ UNCHANGED <<store, clock, pc, token, status, events_data, sync_stats,
                   result, prev, query, slots, answer, report>>

\* The `async with` block is left and the document is built from the cache as
\* it is then.
SchemaReturns(c) ==
    /\ schema_call[c].pc = "closing"
    /\ schema_call' = [schema_call EXCEPT
                          ![c].pc = "done",
                          ![c].answer = schema_doc(schema_cache,
                                                   schema_call[c].answer.types[1])]
    /\ UNCHANGED <<schema_cache, store, clock, pc, token, status, events_data,
                   sync_stats, result, prev, query, slots, answer, report>>

SchemaInit ==
    /\ store = <<>>
    /\ clock = At(4, 16, 0)
    /\ pc = [c \in Calls |-> "idle"]
    /\ token = [c \in Calls |-> FALSE]
    /\ status = [c \in Calls |-> 0]
    /\ events_data = [c \in Calls |-> <<>>]
    /\ sync_stats = [c \in Calls |-> NoStats]
    /\ result = [c \in Calls |-> NoResult]
    /\ prev = NoPrev
    /\ query = NoQuery
    /\ slots = {}
    /\ answer = NoAnswer
    /\ report = NoReport
    /\ SchemaIdle

SchemaNext ==
    \E c \in SchemaCalls :
        \/ SchemaStart(c)
        \/ SchemaPostRaises(c)
        \/ SchemaPostReturns(c)
        \/ SchemaReturns(c)

SchemaSpec == SchemaInit /\ [][SchemaNext]_vars

-----------------------------------------------------------------------------
(* Properties of the sync (checked under Spec). *)

\* A table's rows without updated_at, as a set.
Content(tbl) ==
    {[f \in (DOMAIN tbl[i]) \ {"updated_at"} |-> tbl[i][f]] : i \in DOMAIN tbl}

\* Call c runs its for loop in this step.
LoopStep(c) == pc[c] = "fetching" /\ pc'[c] = "closing"

\* C1 - Idempotent sync: when a sync loop runs over the same feed as the sync
\* loop before it, on the table that loop left, it inserts nothing and leaves the
\* set of rows as it was in every field except updated_at.
IdempotentSync ==
    [][\A c \in Calls :
          (LoopStep(c) /\ prev.valid /\ prev.store = store
                       /\ events_data'[c] = prev.feed)
          => /\ sync_stats'[c].inserted = 0
             /\ Content(store') = Content(store)]_vars

\* Both calls synced the same non-empty feed: the first inserted, the second
\* only updated.
IdempotentSyncWitness ==
    \E c, d \in Calls :
        /\ c # d /\ pc[c] = "done" /\ pc[d] = "done"
        /\ events_data[c] = <<RawStandup, RawLunch>>
        /\ events_data[d] = events_data[c]
        /\ result[c].kind = "stats" /\ result[c].stats.inserted = 2
        /\ result[d].kind = "stats" /\ result[d].stats.inserted = 0
        /\ result[d].stats.updated = 2

\* C2 - Id uniqueness: the events table never holds two rows with the same id.
IdUniqueness ==
    \A i, j \in DOMAIN store : store[i].id = store[j].id => i = j

\* A batch held id e1 twice with differing titles, and another batch held it
\* again: one row of e1 is stored, with the later title.
IdUniquenessWitness ==
    \E c, d \in Calls :
        /\ c # d /\ pc[c] = "done" /\ pc[d] = "done"
        /\ events_data[c] = <<RawStandup, RawStandupMoved>>
        /\ events_data[d] = <<RawStandup>>
        /\ Cardinality({i \in DOMAIN store : store[i].id = "e1"}) = 1

\* A raw event whose timestamps parse.
TimesParse(event) ==
    /\ Has(event, "start_time") /\ event.start_time.iso
    /\ Has(event, "end_time") /\ event.end_time.iso

Backwards(event) == TimesParse(event) /\ event.end_time.sec <= event.start_time.sec
Valid(event) ==
    /\ TimesParse(event) /\ event.end_time.sec > event.start_time.sec
    /\ Has(event, "id") /\ Get(event, "title", "No title") # None

\* Exactly one record of the feed has end_time <= start_time, the others are valid.
OneBackwards(feed) ==
    \E i \in DOMAIN feed :
        /\ Backwards(feed[i])
        /\ \A j \in DOMAIN feed \ {i} : Valid(feed[j])

\* C3 - Transform error isolation: a batch with exactly one record with
\* end_time <= start_time, all others valid, ends with errors = 1 and
\* inserted + updated = the number of the other records, and when its loop has
\* ended that record is not in the table (no row has end_time <= start_time).
TransformErrorIsolation ==
    \A c \in Calls :
        (pc[c] \in {"closing", "done"} /\ OneBackwards(events_data[c]))
        => /\ sync_stats[c].errors = 1
           /\ sync_stats[c].inserted + sync_stats[c].updated
                = Len(events_data[c]) - 1
           /\ (pc[c] = "closing" /\ prev.feed = events_data[c] /\ prev.store = store)
              => \A i \in DOMAIN store : store[i].end_time > store[i].start_time

\* C9 - created_at is write-once: a row that a sync inserts gets created_at = the
\* time of that sync, and no step changes the created_at of a stored id.
CreatedAtWriteOnce ==
    [][/\ \A i \in DOMAIN store : \E j \in DOMAIN store' :
              /\ store'[j].id = store[i].id
              /\ store'[j].created_at = store[i].created_at
       /\ \A j \in DOMAIN store' :
              (\A i \in DOMAIN store : store[i].id # store'[j].id)
              => store'[j].created_at = clock]_vars

\* A later sync re-observed a stored id: the row was updated after its creation.
CreatedAtWriteOnceWitness ==
    \E i \in DOMAIN store, c \in Calls :
        /\ store[i].updated_at > store[i].created_at
        /\ store[i].created_at >= 1
        /\ pc[c] = "done" /\ result[c].stats.updated > 0

\* The step in which call c finds no credential, or its fetch fails.
FetchFailure(c) ==
    \/ pc[c] = "idle" /\ pc'[c] # "idle" /\ ~token'[c]
    \/ pc[c] = "fetching" /\ (status'[c] = -1 \/ status'[c] >= 400)

\* C10 - Fetch-level failure is all-or-nothing: when the credential is missing
\* or the fetch fails, the call writes nothing (the table is unchanged, nothing
\* is counted as inserted or updated) and returns one error result.
FetchFailureAllOrNothing ==
    [][\A c \in Calls :
          FetchFailure(c)
          => /\ store' = store
             /\ pc'[c] = "done"
             /\ result'[c].kind = "error"
             /\ sync_stats'[c].inserted = 0 /\ sync_stats'[c].updated = 0]_vars

\* One call ended on a missing credential and the other on an HTTP error status,
\* with rows in the table.
FetchFailureWitness ==
    \E c, d \in Calls :
        /\ pc[c] = "done" /\ ~token[c] /\ result[c].kind = "error"
        /\ pc[d] = "done" /\ token[d] /\ status[d] = 500
        /\ result[d].kind = "error"
        /\ store # <<>>

-----------------------------------------------------------------------------
(* Properties of free_slots (checked under SlotSpec). *)

Slot(hh, mm, duration_minutes) ==
    [slot_start |-> At(4, hh, mm),
     slot_end |-> At(4, hh, mm) + duration_minutes * Minute]

\* The confirmed events lying within the queried range.
ConfirmedInRange ==
    {i \in DOMAIN store :
        /\ store[i].status = "confirmed"
        /\ store[i].start_time >= query.start_date
        /\ store[i].end_time <= query.end_date}

\* C4 - Free-slot conflict exclusion: no returned slot [slot_start, slot_start +
\* duration) overlaps a confirmed event lying within the range; with the busy
\* interval Friday 10:00-11:00, range 09:00-17:00 and duration 30, the slot
\* 10:30-11:00 is absent and the slot 09:00-09:30 is present.
FreeSlotConflictExclusion ==
    query.asked =>
        /\ \A s \in slots, i \in ConfirmedInRange :
              /\ s.slot_end = s.slot_start + query.duration_minutes * Minute
              /\ ~(store[i].start_time < s.slot_end /\ store[i].end_time > s.slot_start)
        /\ ( /\ \E i \in DOMAIN store : store[i].id = "e1"
             /\ query.start_date = At(4, 9, 0) /\ query.end_date = At(4, 17, 0)
             /\ query.duration_minutes = 30 )
           => (Slot(10, 30, 30) \notin slots /\ Slot(9, 0, 30) \in slots)

\* The example: Friday 10:00-11:00 is busy, the range is 09:00-17:00, the
\* duration 30; 09:00, 09:30 and 11:00 are returned, 10:00 and 10:30 are not.
FreeSlotConflictWitness ==
    /\ query.asked
    /\ \E i \in DOMAIN store : store[i].id = "e1" /\ store[i].status = "confirmed"
    /\ query.start_date = At(4, 9, 0) /\ query.end_date = At(4, 17, 0)
    /\ query.duration_minutes = 30
    /\ {Slot(9, 0, 30), Slot(9, 30, 30), Slot(11, 0, 30)} \subseteq slots
    /\ Slot(10, 0, 30) \notin slots /\ Slot(10, 30, 30) \notin slots

\* C5 - Business-hours filter: every returned slot starts at an hour h with
\* 9 <= h < 17 (stated for the non-degenerate queries: range_start < range_end,
\* duration_minutes > 0).
BusinessHoursFilter ==
    (query.asked /\ query.start_date < query.end_date /\ query.duration_minutes > 0)
    => \A s \in slots :
          ExtractHour(s.slot_start) >= 9 /\ ExtractHour(s.slot_start) < 17

\* C6 - Slot fits the range: every returned slot has range_start <= slot_start
\* and slot_start + duration_minutes <= range_end (stated for the non-degenerate
\* queries: range_start < range_end, duration_minutes > 0).
SlotFitsRange ==
    (query.asked /\ query.start_date < query.end_date /\ query.duration_minutes > 0)
    => \A s \in slots :
            /\ query.start_date <= s.slot_start
            /\ s.slot_start + query.duration_minutes * Minute <= query.end_date

\* C7 - Degenerate inputs: with range_end <= range_start or duration_minutes <= 0
\* no slot is returned.
DegenerateInputsEmpty ==
    (query.asked /\ (query.end_date <= query.start_date \/ query.duration_minutes <= 0))
    => slots = {}

granularity == 30

\* ceil(a / b) for a >= 0, b > 0
CeilDiv(a, b) == (a + b - 1) \div b

\* C8 - Free-slot count: with no confirmed event stored and a range that covers
\* the working day of a weekday (the whole Friday, or Friday 09:00-17:00), the
\* number of slots is floor((17-9)*60/granularity) - ceil(duration/granularity) + 1.
FreeSlotCount ==
    ( /\ query.asked
      /\ \A i \in DOMAIN store : store[i].status # "confirmed"
      /\ query.duration_minutes > 0
      /\ \/ query.start_date = At(4, 0, 0) /\ query.end_date = At(5, 0, 0)
         \/ query.start_date = At(4, 9, 0) /\ query.end_date = At(4, 17, 0) )
    => Cardinality(slots)
         = ((17 - 9) * 60) \div granularity
             - CeilDiv(query.duration_minutes, granularity) + 1

RowsOf(tbl, id) == {tbl[i] : i \in {j \in DOMAIN tbl : tbl[j].id = id}}

IdsOf(tbl) == {tbl[i].id : i \in DOMAIN tbl}

\* The ids of the records of a feed.
FeedIds(feed) == {feed[k].id : k \in {j \in DOMAIN feed : Has(feed[j], "id")}}

\* C12 - Sync never deletes: in every step of every sequence of sync calls, a
\* stored row whose id is not in the feed of a loop run in that step is stored
\* afterwards with every field as it was, and no stored id goes away.
SyncNeverDeletes ==
    [][/\ IdsOf(store) \subseteq IdsOf(store')
       /\ \A i \in DOMAIN store :
             (\A c \in Calls :
                 LoopStep(c) => store[i].id \notin FeedIds(events_data'[c]))
             => store[i] \in RowsOf(store', store[i].id)]_vars

\* A loop has inserted rows from a feed without e1 into the table an earlier
\* process left, and the row of e1 is there as that process wrote it.
SyncNeverDeletesWitness ==
    \E c \in Calls :
        /\ pc[c] = "closing"
        /\ prev.feed = events_data[c]
        /\ "e1" \notin FeedIds(events_data[c])
        /\ sync_stats[c].inserted > 0
        /\ \E r \in RowsOf(store, "e1") : r.updated_at = 0 /\ r.created_at = 0

\* C15 - Stored-event invariant: in every state reachable by sync calls, every
\* stored event has end_time > start_time and duration_minutes >= 0.
StoredEndAfterStart ==
    \A i \in DOMAIN store :
        /\ store[i].end_time > store[i].start_time
        /\ store[i].duration_minutes >= 0

\* The day of the week of a timestamp, 0 = Monday ... 6 = Sunday (the epoch is a
\* Monday).
DayOfWeek(ts) == (ts \div Day) % 7

\* C20 - Weekday filter: every slot free_slots returns starts on a Monday,
\* Tuesday, Wednesday, Thursday or Friday, whatever the range and the busy set.
WeekdayFilter ==
    query.asked => \A s \in slots : DayOfWeek(s.slot_start) \in 0..4

\* A query from Friday 00:00 to Saturday 12:00 has returned slots: the range
\* holds working hours of Friday and of Saturday, the slots are Friday's.
WeekdayFilterWitness ==
    /\ query.asked
    /\ query.start_date = At(4, 0, 0) /\ query.end_date = At(5, 12, 0)
    /\ query.duration_minutes = 30
    /\ slots # {}

-----------------------------------------------------------------------------
(* Properties of one sync over a longer batch (checked under BatchSpec). *)

\* The record raises inside the try block: in the transform (a missing key, a
\* string that is no ISO time) or in the INSERT/UPDATE (a null title).
Fails(event) ==
    \/ ~TimesParse(event)
    \/ ~Has(event, "id")
    \/ Get(event, "title", "No title") = None

\* C11 - A per-record failure never aborts the batch: when a sync loop has run,
\* errors counts exactly the records of the batch that failed (one each, at any
\* position), every record that did not fail was counted as inserted or updated,
\* every valid record has a row written by this loop, and an id all of whose
\* records failed has the rows it had before.
FailureNeverAborts ==
    [][LoopStep("c1") =>
        LET feed == events_data'["c1"]
            bad  == {k \in DOMAIN feed : Fails(feed[k])}
        IN /\ sync_stats'["c1"].errors = Cardinality(bad)
           /\ sync_stats'["c1"].inserted + sync_stats'["c1"].updated
                 = Len(feed) - Cardinality(bad)
           /\ \A k \in DOMAIN feed :
                 Valid(feed[k]) =>
                    \E r \in RowsOf(store', feed[k].id) : r.updated_at = clock
           /\ \A k \in bad :
                 (Has(feed[k], "id")
                    /\ \A j \in DOMAIN feed :
                          (Has(feed[j], "id") /\ feed[j].id = feed[k].id) => j \in bad)
                 => RowsOf(store', feed[k].id) = RowsOf(store, feed[k].id)]_vars

\* A loop has run over three records of which the middle one failed, between
\* two valid ones that were both written.
FailureNeverAbortsWitness ==
    LET feed == events_data["c1"] IN
    /\ pc["c1"] = "closing"
    /\ Len(feed) = 3
    /\ Valid(feed[1]) /\ Fails(feed[2]) /\ Valid(feed[3])
    /\ sync_stats["c1"].errors = 1
    /\ sync_stats["c1"].inserted + sync_stats["c1"].updated = 2

\* The record of the feed a loop wrote last into the row of id: the last record
\* with that id that did not fail.
LastWritten(feed, id) ==
    LET ks == {k \in DOMAIN feed :
                  ~Fails(feed[k]) /\ feed[k].id = id}
    IN CHOOSE k \in ks : \A j \in ks : j <= k

\* The rows a loop run at time now wrote.
WrittenAt(tbl, now) == {tbl[i] : i \in {j \in DOMAIN tbl : tbl[j].updated_at = now}}

\* The classification as a function of the attendees and the home domain.
Classified(attendees, home_domain) ==
    IF \E i \in DOMAIN attendees :
          /\ Has(attendees[i], "email")
          /\ attendees[i].email.at
          /\ attendees[i].email.domain # home_domain
    THEN "external"
    ELSE IF Len(attendees) > 1 THEN "internal"
    ELSE "personal"

FloorMinutes(secs) == secs \div 60

\* C14 - Duration derivation: every row a sync loop wrote, by INSERT or by
\* UPDATE, has as duration_minutes the rounded-down whole minutes between its
\* stored start_time and end_time (90 for 09:00 to 10:30), whatever
\* duration_minutes its record carried.
DurationDerivation ==
    [][LoopStep("c1") =>
        \A r \in WrittenAt(store', clock) :
            /\ r.duration_minutes = FloorMinutes(r.end_time - r.start_time)
            /\ (r.start_time = At(4, 9, 0) /\ r.end_time = At(4, 10, 30))
                  => r.duration_minutes = 90]_vars

-----------------------------------------------------------------------------
(* Properties of query_database (checked under QuerySpec). *)

IsBlank(text) == \A i \in DOMAIN text : text[i] = Blank

IsStatement(piece) == piece \notin {Blank, Semicolon}

\* The text is not SQL: it holds a misspelt keyword, or two statements with no
\* semicolon between them.
Malformed(text) ==
    \/ \E i \in DOMAIN text : text[i] = Misspelt
    \/ \E i, j \in DOMAIN text :
          /\ i < j /\ IsStatement(text[i]) /\ IsStatement(text[j])
          /\ \A k \in (i + 1)..(j - 1) : text[k] = Blank

\* quoted is text without the blanks at its two ends.
Quotes(quoted, text) ==
    /\ quoted # <<>> /\ Head(quoted) # Blank /\ quoted[Len(quoted)] # Blank
    /\ \E i, j \in 0..Len(text) :
          /\ i + Len(quoted) + j = Len(text)
          /\ \A k \in 1..Len(text) :
                IF k <= i \/ k > i + Len(quoted) THEN text[k] = Blank
                ELSE text[k] = quoted[k - i]

QueryReadOnly ==
    [][(answer' # answer /\ answer'.kind \in {"rows", "no results"})
          => store' = store]_vars

-----------------------------------------------------------------------------
(* Properties of generate_meeting_insights (checked under InsightsSpec). *)

\* The days of the window of a period.
WindowLength(time_period) ==
    CASE time_period = "week" -> 7
      [] time_period = "month" -> 30
      [] OTHER -> 90

\* The confirmed events that start in the window of the report.
InWindow ==
    {i \in DOMAIN store :
        /\ store[i].status = "confirmed"
        /\ store[i].start_time <= report.end_date
        /\ store[i].start_time >=
              report.end_date - WindowLength(report.time_period) * Day}

\* The minutes of the rows of a set of indexes, together.
RECURSIVE MinutesOf(_)
MinutesOf(indexes) ==
    IF indexes = {} THEN 0
    ELSE LET i == CHOOSE j \in indexes : TRUE
         IN store[i].duration_minutes + MinutesOf(indexes \ {i})

IsZero(x) == x.mant = BigZero

\* C16 - Insights zero-division guard: a call for the week, the month or the
\* quarter whose window holds no confirmed meeting returns a report, not an
\* error; the report's average meeting length is 0 and it has no breakdown line
\* with a percentage other than 0.
InsightsZeroDivisionGuard ==
    (/\ report.kind # "none"
     /\ report.time_period \in {"week", "month", "quarter"}
     /\ InWindow = {})
    => /\ report.kind = "report"
       /\ report.total_meetings = 0
       /\ IsZero(report.average_meeting_length)
       /\ \A b \in report.breakdown : IsZero(b.percentage)

\* A report for the week has been returned from a table that holds a confirmed
\* meeting, none of them in the window.
InsightsZeroDivisionWitness ==
    /\ report.kind = "report"
    /\ report.time_period = "week"
    /\ InWindow = {}
    /\ \E i \in DOMAIN store : store[i].status = "confirmed"

IsFlag(line) == line \in {HighLoad, HighExternal, LongAverage}

\* C17 - Recommendations: a report has recommendations only when they were asked
\* for and the total is above 0; then high load is flagged exactly when the
\* confirmed minutes of the window are above 1200, high external ratio exactly
\* when the external minutes times 100 are above 60 times the total, long average
\* exactly when the total is above 45 minutes a meeting, in this order.
RecommendationThresholds ==
    report.kind = "report" =>
        LET total    == MinutesOf(InWindow)
            external == MinutesOf({i \in InWindow :
                                      store[i].meeting_type = "external"})
            meetings == Cardinality(InWindow)
        IN IF report.include_recommendations /\ total > 0
           THEN SelectSeq(report.recommendations, IsFlag)
                  = (IF total > 1200 THEN <<HighLoad>> ELSE <<>>)
                    \o (IF external * 100 > 60 * total
                        THEN <<HighExternal>> ELSE <<>>)
                    \o (IF total > 45 * meetings THEN <<LongAverage>> ELSE <<>>)
           ELSE report.recommendations = <<>>

\* The value a row holds for an optional key its record lacks.
DefaultOf(key) ==
    CASE key = "description" -> ""
      [] key = "location" -> ""
      [] key = "status" -> "confirmed"
      [] OTHER -> FALSE

\* The column that holds the value of a key of the record.
ColumnOf(key) == IF key = "recurring" THEN "is_recurring" ELSE key

OptionalKeys == {"description", "location", "status", "recurring"}

\* The record has id, start_time and end_time (both ISO times) and a title that
\* is not null.
HasRequired(event) == ~Fails(event)

\* C21 - Optional fields never cause failure: when a sync loop has run, a record
\* with id, start_time and end_time that lacks description, location, status
\* and/or recurring was not counted as an error (errors counts only the records
\* without the required fields), it has a row written by the loop, and the row
\* of the last such record of an id holds "" for a missing description or
\* location, confirmed for a missing status and false for a missing recurring.
OptionalFieldsDefault ==
    [][LoopStep("c1") =>
        LET feed == events_data'["c1"]
            good == {k \in DOMAIN feed : HasRequired(feed[k])}
        IN /\ sync_stats'["c1"].errors = Len(feed) - Cardinality(good)
           /\ \A k \in good :
                 \E r \in WrittenAt(store', clock) :
                    /\ r.id = feed[k].id
                    /\ k = LastWritten(feed, r.id) =>
                          \A key \in OptionalKeys \ DOMAIN feed[k] :
                             r[ColumnOf(key)] = DefaultOf(key)]_vars

\* A loop has written a record without any of the four keys, one with status
\* only and one with description and location only, with no error.
OptionalFieldsWitness ==
    /\ pc["c1"] = "closing"
    /\ events_data["c1"] = <<RawStandupMoved, RawLunch, RawPartial>>
    /\ sync_stats["c1"].errors = 0
    /\ \E r \in RowsOf(store, "e1") :
          /\ r.description = "" /\ r.location = ""
          /\ r.status = "confirmed" /\ r.is_recurring = FALSE
    /\ \E r \in RowsOf(store, "e3") :
          r.status = "tentative" /\ r.description = "" /\ r.is_recurring = FALSE
    /\ \E r \in RowsOf(store, "e7") :
          /\ r.description = "quarterly" /\ r.location = "Room 2"
          /\ r.status = "confirmed" /\ r.is_recurring = FALSE

\* C22 - Insights totals cover exactly the confirmed events of the trailing
\* window: a call for the week, the month or the quarter returns a report
\* whose total_meetings is the number of stored events with status confirmed
\* and start_time in the 7, 30 or 90 days that end now, and whose total_hours
\* is the sum of their duration_minutes divided by 60; no other event counts.
InsightsTotals ==
    (report.kind # "none" /\ report.time_period \in {"week", "month", "quarter"})
    => /\ report.kind = "report"
       /\ report.total_meetings = Cardinality(InWindow)
       /\ report.total_hours = FloatDiv(FromInt(MinutesOf(InWindow)), FromInt(60))

\* A report for the month from a table with a confirmed meeting that started
\* exactly thirty days ago and a confirmed one that started the day before it:
\* one meeting of one hour is counted.
InsightsTotalsWitness ==
    /\ report.kind = "report"
    /\ report.time_period = "month"
    /\ report.end_date = At(34, 10, 0)
    /\ {store[i].id : i \in DOMAIN store} = {"e1", "e12"}
    /\ \A i \in DOMAIN store : store[i].status = "confirmed"
    /\ report.total_meetings = 1
    /\ report.total_hours = FloatDiv(FromInt(60), FromInt(60))

-----------------------------------------------------------------------------
(* Further properties of free_slots (checked under SlotSpec). *)

\* The confirmed events whose [start_time, end_time) intersects the range
\* [start_date, end_date) of the query.
ConfirmedIntersecting ==
    {i \in DOMAIN store :
        /\ store[i].status = "confirmed"
        /\ store[i].start_time < query.end_date
        /\ store[i].end_time > query.start_date}

\* C23 - Busy set covers every intersecting event: no slot a query returns
\* overlaps a confirmed stored event whose [start_time, end_time) intersects
\* the range, also when the event starts before range_start or ends after
\* range_end (stated for the non-degenerate queries: range_start < range_end,
\* duration_minutes > 0).
BusyCoversIntersecting ==
    (query.asked /\ query.start_date < query.end_date /\ query.duration_minutes > 0)
    => \A s \in slots, i \in ConfirmedIntersecting :
          ~(store[i].start_time < s.slot_end /\ store[i].end_time > s.slot_start)

\* The candidates of the query: the times range_start + k * 30 minutes whose
\* slot ends by range_end and that start on a weekday at an hour from 9 to 16.
Candidates ==
    {t \in {query.start_date + k * HalfHour :
               k \in 0..((query.end_date - query.start_date) \div HalfHour)} :
        /\ t + query.duration_minutes * Minute <= query.end_date
        /\ ExtractHour(t) >= 9 /\ ExtractHour(t) < 17
        /\ DayOfWeek(t) \in 0..4}

\* C29 - Touching endpoints and non-confirmed events do not block a slot: a
\* candidate is returned unless its interval overlaps a confirmed event (an
\* event that only touches it at an end, and a tentative or cancelled event,
\* do not exclude it); with the confirmed event Friday 10:00-11:00, the range
\* 09:00-17:00 and duration 30, the slots 09:30-10:00 and 11:00-11:30 are
\* returned (stated for the non-degenerate queries: range_start < range_end,
\* duration_minutes > 0).
TouchingDoesNotBlock ==
    (query.asked /\ query.start_date < query.end_date /\ query.duration_minutes > 0)
    => /\ \A t \in Candidates :
             (\A i \in DOMAIN store :
                 store[i].status = "confirmed" =>
                    \/ store[i].start_time >= t + query.duration_minutes * Minute
                    \/ store[i].end_time <= t)
             => [slot_start |-> t,
                 slot_end |-> t + query.duration_minutes * Minute] \in slots
       /\ ( /\ \A i \in DOMAIN store :
                  store[i].status = "confirmed" => store[i].id = "e1"
            /\ query.start_date = At(4, 9, 0) /\ query.end_date = At(4, 17, 0)
            /\ query.duration_minutes = 30 )
          => (Slot(9, 30, 30) \in slots /\ Slot(11, 0, 30) \in slots)

\* The example with a cancelled event on top: Friday 10:00-11:00 is confirmed,
\* 11:00-12:00 cancelled; the slots that touch the confirmed event and the
\* slots inside the cancelled one are returned.
CancelledWitness ==
    /\ query.asked
    /\ {store[i].id : i \in DOMAIN store} = {"e1", "e14"}
    /\ \E i \in DOMAIN store : store[i].status = "cancelled"
    /\ query.start_date = At(4, 9, 0) /\ query.end_date = At(4, 17, 0)
    /\ query.duration_minutes = 30
    /\ {Slot(9, 30, 30), Slot(11, 0, 30), Slot(11, 30, 30)} \subseteq slots

\* The example with a tentative lunch on top: Friday 10:00-11:00 is confirmed,
\* 13:00-14:00 tentative; the slots that touch the confirmed event and the
\* slots inside the tentative one are returned.
TouchingWitness ==
    /\ query.asked
    /\ {store[i].id : i \in DOMAIN store} = {"e1", "e3"}
    /\ \E i \in DOMAIN store : store[i].id = "e3" /\ store[i].status = "tentative"
    /\ query.start_date = At(4, 9, 0) /\ query.end_date = At(4, 17, 0)
    /\ query.duration_minutes = 30
    /\ {Slot(9, 30, 30), Slot(11, 0, 30), Slot(13, 0, 30), Slot(13, 30, 30)}
          \subseteq slots
    /\ Slot(10, 0, 30) \notin slots /\ Slot(10, 30, 30) \notin slots

-----------------------------------------------------------------------------
(* Further properties of one sync over a longer batch (checked under       *)
(* BatchSpec).                                                             *)

\* A row without its two timestamps of bookkeeping.
Fields(r) == [f \in (DOMAIN r) \ {"created_at", "updated_at"} |-> r[f]]

\* The ids of the records of a feed that were processed without a failure.
ProcessedIds(feed) == {feed[k].id : k \in {j \in DOMAIN feed : ~Fails(feed[j])}}

\* C24 - Last write wins on upsert: when a sync loop has run, every id with a
\* record of the batch that was processed without a failure has one row, and
\* every field of that row other than created_at and updated_at is the
\* transform of the last such record in feed order, whatever the table held
\* for that id before and whatever earlier records of the batch wrote.
LastWriteWins ==
    [][LoopStep("c1") =>
        LET feed == events_data'["c1"] IN
        \A id \in ProcessedIds(feed) :
            {Fields(r) : r \in RowsOf(store', id)}
               = {transform_event_data(feed[LastWritten(feed, id)])}]_vars

\* The table held the moved standup as id e1; a loop over the moved standup,
\* the standup and a record of e1 that fails has left the standup in the row.
LastWriteWinsWitness ==
    /\ pc["c1"] = "closing"
    /\ events_data["c1"] = <<RawStandupMoved, RawStandup, RawBadIso>>
    /\ sync_stats["c1"].updated = 2 /\ sync_stats["c1"].errors = 1
    /\ \E r \in RowsOf(store, "e1") :
          /\ r.created_at = 0
          /\ r.title = "Standup" /\ r.description = "daily"
          /\ r.end_time = At(4, 11, 0) /\ r.meeting_type = "external"

-----------------------------------------------------------------------------
(* Further properties of the sync calls (checked under Spec). *)

\* The rows inserted since the process started (the rows an earlier process
\* left carry created_at 0, the clock starts at 1).
InsertedRows == {i \in DOMAIN store : store[i].created_at >= 1}

\* C25 - Concurrent syncs do not race on the existence check: with two sync
\* calls that interleave where they wait for the fetch, over feeds that share
\* ids, no id is stored twice, the only records counted as errors are those
\* that fail by themselves (no INSERT fails on the primary key), and the rows
\* inserted are as many as the two calls count as inserted together.
ConcurrentSyncsNoRace ==
    /\ \A i, j \in DOMAIN store : store[i].id = store[j].id => i = j
    /\ \A c \in Calls :
          sync_stats[c].errors
             = Cardinality({k \in DOMAIN events_data[c] : Fails(events_data[c][k])})
    /\ Cardinality(InsertedRows)
          = sync_stats["c1"].inserted + sync_stats["c2"].inserted

\* Both calls waited for their fetch at the same time and have run their loops
\* before either returned, over feeds that both hold e1 on an empty table: one
\* call inserted e1, the other updated it.
ConcurrentSyncsWitness ==
    \E c, d \in Calls :
        /\ c # d /\ pc[c] = "closing" /\ pc[d] = "closing"
        /\ "e1" \in FeedIds(events_data[c]) \cap FeedIds(events_data[d])
        /\ \A i \in DOMAIN store : store[i].created_at >= 1
        /\ sync_stats[c].inserted = 1 /\ sync_stats[c].updated = 0
        /\ sync_stats[d].inserted = 0 /\ sync_stats[d].updated = 1
        /\ sync_stats[c].errors = 0 /\ sync_stats[d].errors = 0
        /\ Cardinality(RowsOf(store, "e1")) = 1

-----------------------------------------------------------------------------
(* Addition of doubles, for the properties that add the hours of a report  *)
(* as Python's + does: the double nearest to the exact sum, ties to even.  *)

\* a + b, for a sum below 2^60
BigAdd(a, b) ==
    LET s3 == a[3] + b[3]
        s2 == a[2] + b[2] + (s3 \div Limb)
        s1 == a[1] + b[1] + (s2 \div Limb)
    IN <<s1, s2 % Limb, s3 % Limb>>

\* a without its k lowest bits, and whether one of those bits was 1.
BigShr(a, k) ==
    LET q == k \div 20
        w == Pow2(k % 20)
        u == Pow2(20 - (k % 20))
        b == IF q = 0 THEN a
             ELSE IF q = 1 THEN <<0, a[1], a[2]>>
             ELSE IF q = 2 THEN <<0, 0, a[1]>>
             ELSE BigZero
        gone == IF q = 0 THEN FALSE
                ELSE IF q = 1 THEN a[3] # 0
                ELSE IF q = 2 THEN a[3] # 0 \/ a[2] # 0
                ELSE a # BigZero
    IN [big  |-> <<b[1] \div w,
                   (b[1] % w) * u + (b[2] \div w),
                   (b[2] % w) * u + (b[3] \div w)>>,
        lost |-> gone \/ b[3] % w # 0]

\* a without its k lowest bits, its last bit set when a bit was lost (so that
\* rounding sees that the value lies above).
BigJam(a, k) ==
    The({IF sh.lost /\ sh.big[3] % 2 = 0
         THEN <<sh.big[1], sh.big[2], sh.big[3] + 1>>
         ELSE sh.big :
         sh \in {BigShr(a, IF k > 60 THEN 60 ELSE k)}})

\* hi + lo for two doubles that are not zero, hi the one with the larger
\* exponent: both mantissas are brought to the exponent hi.exp - 6.
FloatAddAligned(hi, lo) ==
    The({IF hi.neg = lo.neg THEN RoundDiv(hi.neg, BigAdd(H, L), Big(1), hi.exp - 6)
         ELSE IF H = L THEN FloatZero
         ELSE IF BigGe(H, L) THEN RoundDiv(hi.neg, BigSub(H, L), Big(1), hi.exp - 6)
         ELSE RoundDiv(lo.neg, BigSub(L, H), Big(1), hi.exp - 6) :
         H \in {BigTimesPlus(hi.mant, 64, 0)},
         L \in {IF hi.exp - lo.exp <= 6
                THEN BigTimesPlus(lo.mant, Pow2(6 - (hi.exp - lo.exp)), 0)
                ELSE BigJam(lo.mant, hi.exp - lo.exp - 6)}})

\* a + b
FloatAdd(a, b) ==
    The({IF x.mant = BigZero THEN y
         ELSE IF y.mant = BigZero THEN x
         ELSE IF x.exp >= y.exp THEN FloatAddAligned(x, y)
         ELSE FloatAddAligned(y, x) :
         x \in {a}, y \in {b}})

-----------------------------------------------------------------------------
(* Properties of a report made while a sync is in progress (checked under  *)
(* SnapshotSpec).                                                          *)

\* The confirmed rows of a table that start in the window of a report.
WindowOf(tbl, rep) ==
    {i \in DOMAIN tbl :
        /\ tbl[i].status = "confirmed"
        /\ tbl[i].start_time <= rep.end_date
        /\ tbl[i].start_time >= rep.end_date - WindowLength(rep.time_period) * Day}

\* The minutes of the rows of a set of indexes of a table, together.
RECURSIVE MinutesIn(_, _)
MinutesIn(tbl, indexes) ==
    IF indexes = {} THEN 0
    ELSE LET i == CHOOSE j \in indexes : TRUE
         IN tbl[i].duration_minutes + MinutesIn(tbl, indexes \ {i})

\* The counts of a set of breakdown lines, together.
RECURSIVE CountsOf(_)
CountsOf(lines) ==
    IF lines = {} THEN 0
    ELSE LET b == CHOOSE l \in lines : TRUE
         IN b.count + CountsOf(lines \ {b})

\* The hours a number of minutes makes, as the double the report holds.
HoursDouble(minutes) == FloatDiv(FromInt(minutes), FromInt(60))

\* The report rep shows the table tbl: its totals, its breakdown lines and its
\* busiest-day lines are the counts and the minutes of the confirmed rows of tbl
\* in the window, each number of hours the double of its minutes / 60.
Shows(rep, tbl) ==
    LET window == WindowOf(tbl, rep)
        of_type(t) == {i \in window : tbl[i].meeting_type = t}
        of_day(d) == {i \in window : tbl[i].start_time \div Day = d}
    IN /\ rep.total_meetings = Cardinality(window)
       /\ rep.total_hours = HoursDouble(MinutesIn(tbl, window))
       /\ {b.meeting_type : b \in rep.breakdown}
             = {tbl[i].meeting_type : i \in window}
       /\ \A b \in rep.breakdown :
             /\ b.count = Cardinality(of_type(b.meeting_type))
             /\ b.hours = HoursDouble(MinutesIn(tbl, of_type(b.meeting_type)))
       /\ {d.date : d \in rep.busiest_days}
             = {tbl[i].start_time \div Day : i \in window}
       /\ \A d \in rep.busiest_days :
             /\ d.meetings = Cardinality(of_day(d.date))
             /\ d.hours = HoursDouble(MinutesIn(tbl, of_day(d.date)))

\* C26 (amended) - Insights observe one consistent snapshot: a report made at
\* any point of a sync call shows the table of the moment it was made, so the
\* counts of its breakdown lines sum to total_meetings, no busiest-day line has
\* more meetings than total_meetings, and the hours of every line and the total
\* hours are the doubles of sums of minutes that add up exactly.
InsightsSnapshot ==
    [][(report' # report /\ report'.kind = "report") =>
          /\ Shows(report', store)
          /\ CountsOf(report'.breakdown) = report'.total_meetings
          /\ \A d \in report'.busiest_days : d.meetings <= report'.total_meetings]_vars

\* A report was made after the loop of a sync call and before the call
\* returned: the loop inserted rows, and the report counts an external and an
\* internal meeting of that Friday.
InsightsSnapshotWitness ==
    /\ pc["c1"] = "closing"
    /\ sync_stats["c1"].inserted > 0
    /\ report.kind = "report"
    /\ report.end_date = At(4, 16, 0) + 1
    /\ report.total_meetings = 2
    /\ {b.meeting_type : b \in report.breakdown} = {"external", "internal"}
    /\ \E d \in report.busiest_days : d.meetings = 2

\* The sums the hours of a set of breakdown lines can give, added as doubles in
\* any order.
RECURSIVE HoursSums(_)
HoursSums(lines) ==
    IF lines = {} THEN {FloatZero}
    ELSE UNION {{FloatAdd(s, b.hours) : s \in HoursSums(lines \ {b})} : b \in lines}

\* C26 - Insights observe one consistent snapshot: in every report the counts of
\* the breakdown lines sum to total_meetings, the hours of the breakdown lines
\* sum to total_hours, and no busiest-day line has more meetings than
\* total_meetings.
InsightsAggregatesAgree ==
    report.kind = "report" =>
        /\ CountsOf(report.breakdown) = report.total_meetings
        /\ report.total_hours \in HoursSums(report.breakdown)
        /\ \A d \in report.busiest_days : d.meetings <= report.total_meetings

-----------------------------------------------------------------------------
(* Properties of the statistics a sync call returns (checked under Spec). *)

\* C27 - Sync statistics account for every fetched record: a sync call that
\* has returned its statistics (no fetch-level failure) reports fetched =
\* inserted + updated + errors, and the total number of rows it reports is the
\* number of rows the table held before the call plus inserted.
SyncStatsAccount ==
    \A c \in Calls :
        (pc[c] = "done" /\ result[c].kind = "stats") =>
            /\ result[c].stats.fetched
                  = result[c].stats.inserted + result[c].stats.updated
                      + result[c].stats.errors
            /\ result[c].total = prev.before[c] + result[c].stats.inserted

\* Call c returns its statistics in this step.
ReturnStep(c) == pc[c] = "closing" /\ pc'[c] = "done"

\* C27 (amended) - Sync statistics account for every fetched record: a sync
\* call that returns its statistics reports fetched = inserted + updated +
\* errors, and as total the number of rows the table holds when it returns:
\* the rows it held before the call, plus inserted, plus the rows the other
\* call inserted meanwhile (none when the loop of the other call has not run).
SyncStatsAccountAtReturn ==
    [][\A c \in Calls : ReturnStep(c) =>
          LET stats == result'[c].stats
              meanwhile == result'[c].total - prev.before[c] - stats.inserted
          IN /\ result'[c].kind = "stats"
             /\ stats.fetched = stats.inserted + stats.updated + stats.errors
             /\ result'[c].total = Len(store)
             /\ \A d \in Calls \ {c} :
                   /\ meanwhile \in {0, sync_stats[d].inserted}
                   /\ pc[d] \in {"idle", "fetching"} => meanwhile = 0]_vars

\* Both calls have returned statistics: one updated a stored row and inserted
\* another and reports the rows before it plus one; the other, during which
\* that row was inserted, counted an error and reports one row more than the
\* rows before it plus its own.
SyncStatsWitness ==
    \E c, d \in Calls :
        /\ c # d /\ pc[c] = "done" /\ pc[d] = "done"
        /\ result[c].kind = "stats" /\ result[d].kind = "stats"
        /\ result[c].stats.fetched = 2
        /\ result[c].stats.inserted = 1 /\ result[c].stats.updated = 1
        /\ result[c].total = prev.before[c] + 1
        /\ result[d].stats.fetched = 2 /\ result[d].stats.errors = 1
        /\ result[d].total = prev.before[d] + result[d].stats.inserted + 1

\* C28 - updated_at is refreshed on every reconciliation touch: the row of
\* every id a sync loop processed without a failure has updated_at = the time
\* of that sync, whether or not another field changed; in no step does the
\* updated_at of a stored id decrease, and every stored row has created_at <=
\* updated_at.
UpdatedAtRefreshed ==
    [][/\ \A c \in Calls :
             LoopStep(c) =>
                \A id \in ProcessedIds(events_data'[c]) :
                   /\ RowsOf(store', id) # {}
                   /\ \A r \in RowsOf(store', id) : r.updated_at = clock
       /\ \A i \in DOMAIN store :
             /\ store[i].created_at <= store[i].updated_at
             /\ \A r \in RowsOf(store', store[i].id) :
                   r.updated_at >= store[i].updated_at
       /\ \A j \in DOMAIN store' :
             store'[j].created_at <= store'[j].updated_at]_vars

\* Two calls have synced the same record one after the other: the second found
\* nothing to change, and the row carries the time of the first sync as
\* created_at and the time of the second as updated_at.
UpdatedAtRefreshedWitness ==
    \E c, d \in Calls :
        /\ c # d /\ pc[c] = "done" /\ pc[d] = "done"
        /\ events_data[c] = <<RawLunch>> /\ events_data[d] = <<RawLunch>>
        /\ result[c].stats.inserted = 1 /\ result[d].stats.updated = 1
        /\ \E r \in RowsOf(store, "e3") :
              /\ r.created_at = 1 /\ r.updated_at = 2
              /\ Fields(r) = transform_event_data(RawLunch)

-----------------------------------------------------------------------------
(* Properties of the schema cache (checked under SchemaSpec). *)

\* A response body that carries a schema: {"data": {"__schema": {...}}}.
HasSchema(body) ==
    /\ body.type = "dict"
    /\ DictGet(body, "data", PyNone).type = "dict"
    /\ DictGet(DictGet(body, "data", PyNone), "__schema", PyNone).type = "dict"

\* The calls that fetched the schema: their request succeeded and its response,
\* a schema, was assigned to the cache.
Fetched == {c \in SchemaCalls : HasSchema(schema_call[c].json)}

\* Call c begins in this step.
BeginStep(c) == schema_call[c].pc = "idle" /\ schema_call'[c].pc # "idle"

\* A call that begins after some call has fetched sends no request and has its
\* answer at once.
AnsweredFromCache ==
    \A c \in SchemaCalls :
        Fetched # {} /\ BeginStep(c)
            => ~schema_call'[c].sent /\ schema_call'[c].pc = "done"

\* At most one introspection request succeeds.
FetchedAtMostOnce == Cardinality(Fetched) <= 1

\* When every request sent so far has ended in the error answer, the cache is
\* empty, and a call that begins then and has a token sends a request.
FailedFetchLeavesEmpty ==
    (/\ \E c \in SchemaCalls : schema_call[c].sent
     /\ \A c \in SchemaCalls :
           schema_call[c].sent => /\ schema_call[c].pc = "done"
                                  /\ schema_call[c].answer = SchemaError)
        => /\ schema_cache = PyNone
           /\ \A c \in SchemaCalls :
                 BeginStep(c) /\ schema_call'[c].answer # SchemaError
                     => schema_call'[c].sent

\* C30 - Schema cache: once a get_graphql_schema call has fetched the schema,
\* every call that begins later is answered from the cache and sends no
\* request, so that at most one introspection request succeeds per process,
\* also when calls overlap; and a call whose fetch fails leaves the cache empty
\* so that the next call fetches again.
SchemaCachedOnce ==
    [][/\ AnsweredFromCache
       /\ FetchedAtMostOnce'
       /\ FailedFetchLeavesEmpty]_vars

=============================================================================
